---- MODULE Spec2Model ----
(***************************************************************************)
(* Explanation tracking for differential dataflow (src/src/lib.rs) and the *)
(* connected-components dataflow built from it (src/examples/cc.rs,        *)
(* src/examples/interactive-cc.rs).                                        *)
(*                                                                         *)
(* A differential collection is a Z-set: a function from the records with  *)
(* non-zero accumulated weight to that weight.  A collection in a nested   *)
(* scope is a function of the timestamp; the engine fixes it at every time *)
(* as the operator applied to its inputs at that time, and the loop        *)
(* variable of a scope is empty at iteration 0 and holds at iteration n+1  *)
(* what was fed back at iteration n.  The one operator of the library that *)
(* sees deltas instead of collections is lift!: it is modelled on the      *)
(* consolidated deltas, which are the differences of the collection over   *)
(* the product order on (epoch, correction, iteration).                    *)
(***************************************************************************)
EXTENDS Integers, Sequences, FiniteSets, TLC

(***************************************************************************)
(* Bounds of the model.                                                    *)
(***************************************************************************)
MaxNode   == 2      \* node identifiers are 0..MaxNode
MaxRound  == 3      \* epochs the driver opens: 0 (loading) .. MaxRound
MaxCorr   == 6      \* cap on the correction rounds of one epoch
MaxAdds   == 3      \* sources added to one MonotonicVariable
MaxIter   == 2      \* iterations a MonotonicVariable is run for
MaxDeltas == 3      \* deltas a producer sends in one delivery
MaxWeight == 2      \* cap on the multiplicity of one input record

(***************************************************************************)
(* The state: the inputs and the *_must collections of the dataflow at     *)
(* every time so far, the lifted histories, and, apart from the dataflow,  *)
(* two Variables with a combinator applied to them.                        *)
(***************************************************************************)
VARIABLES
    round,        \* the epoch the inputs are at
    pc,           \* "load", "idle" (reading a line) or "step" (step_while)
    corr,         \* the correction round the stepping has reached
    graph,        \* graph[e+1]: the graph input accumulated at epoch e
    label,        \* label[e+1]
    query,        \* query[e+1]
    graph_must,   \* graph_must[e+1][c+1]: graph_must.stream at (e,c)
    label_must,   \* label_must[e+1][c+1]
    liftedMin,    \* lift!(min1.concat(&min2)) of min!, all times
    liftedOut,    \* lift!(var_min.stream.concat(&var_min.working)) of leave!
    depends,      \* the depends collections the last correction round left
    cva,          \* a Variable made by Variable::new: [stream, working]
    cvb,          \* a second one
    cop,          \* the combinator applied to them last ("none", "new", ...)
    cres,         \* the Variable that combinator returned
    cdem,         \* the demands put on it and those it added to its inputs
    trip,         \* the dataflow with the queries put on
                  \* final_labels.enter(..) left again: its *_must collections
                  \* and lifted histories
    dlv,          \* the deltas of a producer on their way to lift! and to a
                  \* MonotonicVariable, and what these hold
    acc           \* a MonotonicVariable: its feedback handle, the number of
                  \* its sources, and its stream and sources by iteration

dataflowVars == <<round, pc, corr, graph, label, query, graph_must, label_must,
                  liftedMin, liftedOut, depends>>

combVars == <<cva, cvb, cop, cres, cdem>>

vars == <<dataflowVars, combVars, trip, dlv, acc>>

(***************************************************************************)
(* Z-sets: differential_dataflow::Collection at one time.                  *)
(***************************************************************************)
ZEmpty == [r \in {} |-> 0]

Wt(z, r) == IF r \in DOMAIN z THEN z[r] ELSE 0

Support(z) == DOMAIN z

RECURSIVE SumW(_, _)
SumW(z, S) ==
    IF S = {} THEN 0
    ELSE LET r == CHOOSE x \in S : TRUE IN z[r] + SumW(z, S \ {r})

\* The set S as a collection, every record once.
OfSet(S) == [r \in S |-> 1]

\* Collection::concat: weights add; records whose weights cancel vanish.
Concat(a, b) ==
    [r \in {x \in DOMAIN a \cup DOMAIN b : Wt(a, x) + Wt(b, x) # 0}
        |-> Wt(a, r) + Wt(b, r)]

\* Collection::negate.
Negate(a) == [r \in DOMAIN a |-> 0 - a[r]]

\* Collection::map: the weights of records with the same image add.
MapZ(z, f) ==
    LET img == {f[r] : r \in DOMAIN z}
        w(s) == SumW(z, {r \in DOMAIN z : f[r] = s})
    IN  [s \in {x \in img : w(x) # 0} |-> w(s)]

\* Collection::filter.
FilterZ(z, p) == [r \in {x \in DOMAIN z : p[x]} |-> z[r]]

\* Collection::threshold(|_, w| if w > 0 { 1 } else { 0 }).
Threshold(z) == [r \in {x \in DOMAIN z : z[x] > 0} |-> 1]

\* join / join_u on the first component of (key, value) records, before the
\* caller's map: records <<k, v1, v2>> with the product of the weights.
JoinKV(a, b) ==
    LET pairs == {<<ra, rb>> \in (DOMAIN a) \X (DOMAIN b) : ra[1] = rb[1]}
    IN  [j \in {<<p[1][1], p[1][2], p[2][2]>> : p \in pairs}
            |-> a[<<j[1], j[2]>>] * b[<<j[1], j[3]>>]]

\* semijoin of ((k,v),()) records against a collection of (k,v) keys.
Semijoin(a, keys) ==
    [r \in {x \in DOMAIN a : x \in DOMAIN keys} |-> a[r] * keys[r]]

(***************************************************************************)
(* Timestamps.  A time of the correction scope is <<epoch, correction>>, a *)
(* time of the inner scope <<epoch, correction, iteration>>; both are      *)
(* ordered by the product order of timely's Product.                       *)
(***************************************************************************)
\* u32::max_value() as the correction coordinate of a query's T_bound; the
\* model checker's integers end at 2^31 - 1, which stands for it here (the
\* value is only ever compared with the times of the model, all smaller).
MaxU32 == 2147483647

TimeLeq(t1, t2) == \A n \in DOMAIN t1 : t1[n] <= t2[n]

Outer(t) == <<t[1], t[2]>>

\* ((k as f64).ln() * 10.0) as u32 for the node identifiers of the model;
\* ln(0) is -inf and the cast of -inf to u32 saturates at 0.
LnTimes10(k) == IF k = 0 THEN 0 ELSE <<0, 6, 10, 13, 16, 17, 19>>[k]

\* The inner time at which enter_at introduces the label of node k.
EnterAt(k) == 256 * LnTimes10(k)

\* Iterations at which a collection of the inner scope can change, the
\* nodes being 0..m: a label entering at iteration d reaches every node
\* within m iterations, and the lexicographic tie-break among equal labels
\* settles one iteration later, so the loop repeats itself from d + m + 2 on
\* (InnerStable checks that the last two iterations of every block agree).
Hops(m) == m + 2

IterSet(m) == UNION {EnterAt(k)..(EnterAt(k) + Hops(m)) : k \in 0..m}

RECURSIVE SortedSeq(_)
SortedSeq(S) ==
    IF S = {} THEN << >>
    ELSE LET m == CHOOSE x \in S : \A y \in S : x <= y
         IN  <<m>> \o SortedSeq(S \ {m})

\* The chain of the second scenario, a graph file of four nodes; the other
\* files the loader is run on have the nodes 0..MaxNode.
ChainGraph == {<<0, 1>>, <<1, 2>>, <<2, 3>>}

ChainNode == CHOOSE m \in {r[2] : r \in ChainGraph} :
                 \A r \in ChainGraph : r[1] <= m /\ r[2] <= m

IterSeqNodes == SortedSeq(IterSet(MaxNode))

IterSeqChain == SortedSeq(IterSet(ChainNode))

\* edges.nodes() of the loaded file is beyond MaxNode.
ChainLoaded == graph # << >> /\ \E r \in DOMAIN graph[1] : r[2] > MaxNode

IterSeq == IF ChainLoaded THEN IterSeqChain ELSE IterSeqNodes

NIter == Len(IterSeq)

(***************************************************************************)
(* The data side of the connected-components dataflow, for one choice of   *)
(* the graph and label collections (the inputs for `stream`, the *_must    *)
(* collections for `working`).                                             *)
(***************************************************************************)
\* var_graph.map(|(x,y)| (y,x), ..).concat(&mut var_graph)
VarEdges(g) == Concat(MapZ(g, [r \in DOMAIN g |-> <<r[2], r[1]>>]), g)

\* var_label.enter_at(inner, ..) as it stands at iteration i, then
\* .map(|(x,l)| (x,(l,x)), ..)
LabelOptions(lab, i) ==
    LET entered == FilterZ(lab, [r \in DOMAIN lab |-> EnterAt(r[1]) <= i])
    IN  MapZ(entered, [r \in DOMAIN entered |-> <<r[1], <<r[2], r[1]>>>>])

\* var_edges.enter(inner).join_u(&mut var_inner)
\*          .map(|(x,(y,l))| (y,(l,x)), ..)
VarTransmit(edges, inner) ==
    LET joined == JoinKV(edges, inner)
    IN  MapZ(joined, [j \in DOMAIN joined |-> <<j[2], <<j[3], j[1]>>>>])

\* var_options
VarOptions(edges, lab, inner, i) ==
    Concat(LabelOptions(lab, i), VarTransmit(edges, inner))

\* Ord of the (label, source) pairs of var_options.
LexLeq(a, b) == a[1] < b[1] \/ (a[1] = b[1] /\ a[2] <= b[2])

\* group_u that takes the last value of every key.
GroupMax(z) ==
    LET keys == {r[1] : r \in DOMAIN z}
        vals(k) == {r[2] : r \in {x \in DOMAIN z : x[1] = k}}
        most(k) == CHOOSE v \in vals(k) : \A u \in vals(k) : LexLeq(u, v)
    IN  OfSet({<<k, most(k)>> : k \in keys})

\* group_u(|_k, s, t| t.push((*s.next().unwrap().0, 1))): for every key
\* with a record of non-zero weight, the least value, once.
GroupMin(z) ==
    LET keys == {r[1] : r \in DOMAIN z}
        vals(k) == {r[2] : r \in {x \in DOMAIN z : x[1] = k}}
        least(k) == CHOOSE v \in vals(k) : \A u \in vals(k) : LexLeq(v, u)
    IN  OfSet({<<k, least(k)>> : k \in keys})

\* The value extractor of min!(var_options, |(l,_d)| l, ..).
Logic(v) == v[1]

\* min1.map(|(k,v)| (k,$logic(v)))
MinOut(m) == MapZ(m, [r \in DOMAIN m |-> <<r[1], Logic(r[2])>>])

\* min1 (or min2) at the iterations IterSeq[1..n]; var_inner at an iteration
\* is var_min one iteration earlier (connect_loop, summary 1), empty at 0.
RECURSIVE InnerTrace(_, _, _)
InnerTrace(g, lab, n) ==
    IF n = 0 THEN << >>
    ELSE LET prev == InnerTrace(g, lab, n - 1)
             inner == IF n = 1 THEN ZEmpty ELSE MinOut(prev[n - 1])
         IN  Append(prev,
                    GroupMin(VarOptions(VarEdges(g), lab, inner, IterSeq[n])))

InnerRun(g, lab) == InnerTrace(g, lab, NIter)

\* The run has stopped changing at the end of every block of iterations.
StableRun(tr) ==
    \A n \in 2..NIter :
        (n = NIter \/ IterSeq[n + 1] # IterSeq[n] + 1) => tr[n] = tr[n - 1]

(***************************************************************************)
(* lift!: one record (datum, time), once, for every record of a            *)
(* consolidated delta, whatever the sign of its weight.  A trace is a      *)
(* sequence of collections, one per iteration of IterSeq.                  *)
(***************************************************************************)
EmptyTrace == [n \in 1..NIter |-> ZEmpty]

ConcatTrace(a, b) == [n \in 1..NIter |-> Concat(a[n], b[n])]

MinOutTrace(a) == [n \in 1..NIter |-> MinOut(a[n])]

\* The change of a trace from one iteration to the next.
IterDelta(tr, n) ==
    Concat(tr[n], IF n = 1 THEN ZEmpty ELSE Negate(tr[n - 1]))

\* The consolidated delta at <<e, c, IterSeq[n]>> of the collection that is
\* cur at (e,c), prevC at (e,c-1), prevE at (e-1,c) and prevEC at (e-1,c-1).
Delta3(cur, prevC, prevE, prevEC, n) ==
    Concat(Concat(IterDelta(cur, n), Negate(IterDelta(prevC, n))),
           Concat(Negate(IterDelta(prevE, n)), IterDelta(prevEC, n)))

\* A lift! that records insertions alone.
LiftInsertions(cur, prevC, prevE, prevEC, e, c) ==
    UNION {{<<r, <<e, c, IterSeq[n]>>>> :
                r \in {x \in Support(Delta3(cur, prevC, prevE, prevEC, n)) :
                          Wt(Delta3(cur, prevC, prevE, prevEC, n), x) > 0}} :
           n \in 1..NIter}

\* session.give(((datum.clone(), time.time()), 1)) for each datum of a delta
Lift(cur, prevC, prevE, prevEC, e, c) ==
    UNION {{<<r, <<e, c, IterSeq[n]>>>> :
                r \in Support(Delta3(cur, prevC, prevE, prevEC, n))} :
           n \in 1..NIter}

(***************************************************************************)
(* The explanation scope of the connected-components dataflow: the depends *)
(* collection of every Variable, all MonotonicVariables of one scope.      *)
(***************************************************************************)
\* A demand is <<k, v, t, q>>.
NoDemands ==
    [dfl |-> ZEmpty, dmin |-> ZEmpty, dopt |-> ZEmpty, dlm |-> ZEmpty,
     dlin |-> ZEmpty, dl |-> ZEmpty, dtr |-> ZEmpty, djoin |-> ZEmpty,
     dein |-> ZEmpty, dinner |-> ZEmpty, dedges |-> ZEmpty, drev |-> ZEmpty,
     dg |-> ZEmpty]

\* A MonotonicVariable whose add keeps every record of a source once.
MonotonicNextDeduplicated(stream, sources) ==
    LET RECURSIVE Cur(_)
        Cur(n) == IF n = 0 THEN stream
                  ELSE Concat(Cur(n - 1), Threshold(sources[n]))
    IN  Threshold(Cur(Len(sources)))

\* MonotonicVariable: `current` is the stream and every added source,
\* concatenated; drop feeds threshold(current) back as the next stream.
MonotonicNext(stream, sources) ==
    LET RECURSIVE Cur(_)
        Cur(n) == IF n = 0 THEN stream ELSE Concat(Cur(n - 1), sources[n])
    IN  Threshold(Cur(Len(sources)))

\* The stream of a MonotonicVariable whose sources do not change, once the
\* explanation scope has stopped iterating.
RECURSIVE MonotonicRun(_, _)
MonotonicRun(stream, sources) ==
    LET next == MonotonicNext(stream, sources)
    IN  IF next = stream THEN stream ELSE MonotonicRun(next, sources)

\* leave! that hands the demands on to the inner scope without the join
\* with the lifted history, at the last time within their own.
LeaveDemandsUnjoined(dres, lifted) ==
    MapZ(dres, [d \in DOMAIN dres |->
                   <<d[1], d[2], <<d[3][1], d[3][2], MaxU32>>, d[4]>>])

\* leave! that keeps the history up to the time of the demand alone.
LeaveDemandsBounded(dres, lifted) ==
    LET pairs == {<<d, h>> \in (DOMAIN dres) \X lifted :
                      /\ d[1] = h[1][1] /\ d[2] = h[1][2]
                      /\ TimeLeq(Outer(h[2]), d[3])}
    IN  [o \in {<<p[1][1], p[1][2], p[2][2], p[1][4]>> : p \in pairs} |-> 1]

\* leave!: result.depends joined on (x,y) with the lifted history of
\* $var.stream.concat(&$var.working); the time of the demand is dropped.
\* A leave! whose demands do not go beyond the iteration the demand's
\* T_bound names.
LeaveDemandsCapped(dres, lifted) ==
    LET pairs == {<<d, h>> \in (DOMAIN dres) \X lifted :
                      d[1] = h[1][1] /\ d[2] = h[1][2]}
        cap(t, b) == <<t[1], t[2], IF t[3] <= b[2] THEN t[3] ELSE b[2]>>
    IN  [o \in {<<p[1][1], p[1][2], cap(p[2][2], p[1][3]), p[1][4]>> :
                   p \in pairs} |-> 1]

LeaveDemands(dres, lifted) ==
    LET pairs == {<<d, h>> \in (DOMAIN dres) \X lifted :
                      d[1] = h[1][1] /\ d[2] = h[1][2]}
        out == {<<p[1][1], p[1][2], p[2][2], p[1][4]>> : p \in pairs}
        w(o) == SumW(dres, {d \in DOMAIN dres :
                               d[1] = o[1] /\ d[2] = o[2] /\ d[4] = o[4]})
    IN  [o \in out |-> w(o)]

\* min! with filter (iii) written `<` instead of `<=`.
MinDemandsStrict(dmin, lifted) ==
    LET pairs == {<<h, d>> \in lifted \X (DOMAIN dmin) :
                      /\ h[1][1] = d[1]
                      /\ TimeLeq(h[2], d[3])
                      /\ Logic(h[1][2]) < d[2]}
        out == {<<p[1][1][1], p[1][1][2], p[1][2], p[2][4]>> : p \in pairs}
    IN  [o \in out |-> 1]

\* min! without filter (iii).
MinDemandsAnyValue(dmin, lifted) ==
    LET pairs == {<<h, d>> \in lifted \X (DOMAIN dmin) :
                      /\ h[1][1] = d[1]
                      /\ TimeLeq(h[2], d[3])}
        out == {<<p[1][1][1], p[1][1][2], p[1][2], p[2][4]>> : p \in pairs}
    IN  [o \in out |-> 1]

\* min! without filter (ii).
MinDemandsAnyTime(dmin, lifted) ==
    LET pairs == {<<h, d>> \in lifted \X (DOMAIN dmin) :
                      /\ h[1][1] = d[1]
                      /\ Logic(h[1][2]) <= d[2]}
        out == {<<p[1][1][1], p[1][1][2], p[1][2], p[2][4]>> : p \in pairs}
    IN  [o \in out |-> 1]

\* min! with the time of the demand in place of the time of the minimum.
MinDemandsAtDemand(dmin, lifted) ==
    LET pairs == {<<h, d>> \in lifted \X (DOMAIN dmin) :
                      /\ h[1][1] = d[1]
                      /\ TimeLeq(h[2], d[3])
                      /\ Logic(h[1][2]) <= d[2]}
    IN  [o \in {<<p[1][1][1], p[1][1][2], p[2][3], p[2][4]>> : p \in pairs}
            |-> 1]

\* min!: the lifted minimums joined on the key with the demands on var_min,
\* kept when (ii) the time and (iii) the value are less or equal.
MinDemands(dmin, lifted) ==
    LET pairs == {<<h, d>> \in lifted \X (DOMAIN dmin) :
                      /\ h[1][1] = d[1]
                      /\ TimeLeq(h[2], d[3])
                      /\ Logic(h[1][2]) <= d[2]}
        out == {<<p[1][1][1], p[1][1][2], p[1][2], p[2][4]>> : p \in pairs}
        w(o) == SumW(dmin, {d \in DOMAIN dmin :
                               /\ d[1] = o[1] /\ d[4] = o[4]
                               /\ TimeLeq(o[3], d[3])
                               /\ Logic(o[2]) <= d[2]})
    IN  [o \in out |-> w(o)]

\* The feedback logic without the filter: t.inner - 1 wraps around at 0.
FeedbackDemandsWrapping(dinner) ==
    MapZ(dinner, [d \in DOMAIN dinner |->
                    <<d[1], d[2],
                      <<d[3][1], d[3][2],
                        IF d[3][3] = 0 THEN MaxU32 ELSE d[3][3] - 1>>, d[4]>>])

\* The feedback logic with the filter written t.inner > 1.
FeedbackDemandsStopped(dinner) ==
    LET later == FilterZ(dinner, [d \in DOMAIN dinner |-> d[3][3] > 1])
    IN  MapZ(later, [d \in DOMAIN later |->
                        <<d[1], d[2], <<d[3][1], d[3][2], d[3][3] - 1>>, d[4]>>])

\* The feedback logic: .filter(|&(_,_,t,_)| t.inner > 0)
\*                     .map(|(x,l,t,q)| (x,l,Product::new(t.outer, t.inner - 1),q))
\* A feedback edge that hands a demand on at its own iteration.
FeedbackDemandsSameIteration(dinner) ==
    FilterZ(dinner, [d \in DOMAIN dinner |-> d[3][3] > 0])

FeedbackDemands(dinner) ==
    LET later == FilterZ(dinner, [d \in DOMAIN dinner |-> d[3][3] > 0])
    IN  MapZ(later, [d \in DOMAIN later |->
                        <<d[1], d[2], <<d[3][1], d[3][2], d[3][3] - 1>>, d[4]>>])

\* VariableFeedback::set: source.depends.add(&self.variable.depends.stream
\*     .filter(|&(_,_,t,_)| t.inner > 0)
\*     .map(|(x,l,t,q)| (x,l,Product::new(t.outer, t.inner - 1),q)))
SetDemands(dvar) ==
    LET later == FilterZ(dvar, [d \in DOMAIN dvar |-> d[3][3] > 0])
    IN  MapZ(later, [d \in DOMAIN later |->
                        <<d[1], d[2], <<d[3][1], d[3][2], d[3][3] - 1>>, d[4]>>])

\* enter that hands the demands on with their time as it is.
EnterDemandsUnstripped(dres) == dres

\* enter, enter_at: .map(|(x,y,t,q)| (x,y,t.outer,q))
EnterDemands(dres) ==
    MapZ(dres, [d \in DOMAIN dres |-> <<d[1], d[2], Outer(d[3]), d[4]>>])

\* join_u with the second component of the joined value sent to self as well.
JoinDemandsOtherAsSelf(dres) ==
    MapZ(dres, [d \in DOMAIN dres |-> <<d[1], d[2][1], d[3], d[4]>>])

\* join_u: self.depends.add(&result.depends.stream.map(|(x,(y,_),t,q)| (x,y,t,q)))
JoinDemandsSelf(dres) ==
    MapZ(dres, [d \in DOMAIN dres |-> <<d[1], d[2][1], d[3], d[4]>>])

\* join_u: other.depends.add(&result.depends.stream.map(|(x,(_,z),t,q)| (x,z,t,q)))
JoinDemandsOther(dres) ==
    MapZ(dres, [d \in DOMAIN dres |-> <<d[1], d[2][2], d[3], d[4]>>])

\* concat, except, consolidate: self.depends.add(&result.depends.stream), and
\* the same for other.
SameDemands(dres) == dres

\* map_inverse: the demand with (k2,v2) taken back through `inverse`.
MapInverseDemands(dres, inverse) ==
    MapZ(dres, [d \in DOMAIN dres |->
                   <<inverse[<<d[1], d[2]>>][1], inverse[<<d[1], d[2]>>][2],
                     d[3], d[4]>>])

\* The queries counted only where their multiplicity is exactly one.
QueryDemandsSingles(stream, qry) ==
    [q \in {x \in DOMAIN qry : qry[x] = 1} |-> 1]

\* final_labels.depends.add(&query.enter(&prov)): the demands on the output.
QueryDemands(stream, qry) == MonotonicNext(stream, <<qry>>)

\* One iteration of the explanation scope: every MonotonicVariable's stream
\* becomes the threshold of what it held plus what its sources held.
ExplainStep(D, qry, lo, lm) ==
    [dfl    |-> QueryDemands(D.dfl, qry),
     dmin   |-> MonotonicNext(D.dmin, <<FeedbackDemands(D.dinner),
                                        LeaveDemands(D.dfl, lo)>>),
     dopt   |-> MonotonicNext(D.dopt, <<MinDemands(D.dmin, lm)>>),
     dlm    |-> MonotonicNext(D.dlm, <<SameDemands(D.dopt)>>),
     dtr    |-> MonotonicNext(D.dtr, <<SameDemands(D.dopt)>>),
     dlin   |-> MonotonicNext(D.dlin,
                    <<MapZ(D.dlm, [d \in DOMAIN D.dlm |->
                              <<d[1], d[2][1], d[3], d[4]>>])>>),
     dl     |-> MonotonicNext(D.dl, <<EnterDemands(D.dlin)>>),
     djoin  |-> MonotonicNext(D.djoin,
                    <<MapZ(D.dtr, [d \in DOMAIN D.dtr |->
                              <<d[2][2], <<d[1], d[2][1]>>, d[3], d[4]>>])>>),
     dein   |-> MonotonicNext(D.dein, <<JoinDemandsSelf(D.djoin)>>),
     dinner |-> MonotonicNext(D.dinner, <<JoinDemandsOther(D.djoin)>>),
     dedges |-> MonotonicNext(D.dedges, <<EnterDemands(D.dein)>>),
     drev   |-> MonotonicNext(D.drev, <<SameDemands(D.dedges)>>),
     dg     |-> MonotonicNext(D.dg,
                    <<MapZ(D.drev, [d \in DOMAIN D.drev |->
                              <<d[2], d[1], d[3], d[4]>>]),
                      SameDemands(D.dedges)>>)]

\* The explanation scope runs until no depends collection changes; what
\* leaves the scope (depends.stream.leave()) is that fixed point.
RECURSIVE Explain(_, _, _, _)
Explain(D, qry, lo, lm) ==
    LET next == ExplainStep(D, qry, lo, lm)
    IN  IF next = D THEN D ELSE Explain(next, qry, lo, lm)

\* The demands added to a *_must without the semijoin with the input.
MustSourceUnfiltered(need, input) ==
    MapZ(need, [d \in DOMAIN need |-> <<d[1], d[2]>>])

\* graph_must.add(&graph_need.map(|(k,v,_t,_q)| ((k,v),())).semijoin(&graph)
\*                           .map(|((k,v),_)| (k,v)))
MustSource(need, input) ==
    Semijoin(MapZ(need, [d \in DOMAIN need |-> <<d[1], d[2]>>]), input)

\* A *_must whose feedback keeps the multiplicities of `current`.
MustNextUnthresholded(must, need, input) ==
    Concat(must, MustSource(need, input))

\* A *_must that feeds back only the demanded records it does not hold yet.
MustNextOnlyNew(must, need, input) ==
    Threshold(Concat(MustSource(need, input), Negate(must)))

\* graph_must and label_must at the next correction round: the
\* MonotonicVariable with the one source added to it.
MustNext(must, need, input) ==
    MonotonicNext(must, <<MustSource(need, input)>>)

(***************************************************************************)
(* Variable and its combinators, on the stream and the working collection  *)
(* read at one time.                                                       *)
(***************************************************************************)
VarNew(source, working) == [stream |-> source, working |-> working]

VarJoinU(a, b) ==
    LET js == JoinKV(a.stream, b.stream)
        jw == JoinKV(a.working, b.working)
    IN  VarNew(MapZ(js, [j \in DOMAIN js |-> <<j[1], <<j[2], j[3]>>>>]),
               MapZ(jw, [j \in DOMAIN jw |-> <<j[1], <<j[2], j[3]>>>>]))

VarMapInverse(a, logic) ==
    VarNew(MapZ(a.stream, logic), MapZ(a.working, logic))

\* concat with the two arguments of Variable::new in the other order.
VarConcatSwapped(a, b) ==
    VarNew(Concat(a.working, b.working), Concat(a.stream, b.stream))

VarConcat(a, b) ==
    VarNew(Concat(a.stream, b.stream), Concat(a.working, b.working))

\* except that concatenates the other collections as they are.
VarExceptAdded(a, b) ==
    VarNew(Concat(a.stream, b.stream), Concat(a.working, b.working))

\* except that negates the other stream and leaves the other working
\* collection as it is.
VarExceptStreamOnly(a, b) ==
    VarNew(Concat(a.stream, Negate(b.stream)), Concat(a.working, b.working))

VarExcept(a, b) ==
    VarNew(Concat(a.stream, Negate(b.stream)),
           Concat(a.working, Negate(b.working)))

\* connect_loop(handle1), connect_loop(handle2): the loop variable holds at
\* an iteration what the source held one iteration earlier.
VarLoop(a) == VarNew(a.stream, a.working)

\* enter: the collection is in the child scope what it is outside, at every
\* iteration.
VarEnter(a) == VarNew(a.stream, a.working)

\* enter_at: at iteration i the child scope holds the records that have
\* entered by then.
VarEnterAt(a, at, i) ==
    VarNew(FilterZ(a.stream, [r \in DOMAIN a.stream |-> at[r] <= i]),
           FilterZ(a.working, [r \in DOMAIN a.working |-> at[r] <= i]))

\* consolidate: equal records are accumulated, which the collections of the
\* model always are.
VarConsolidate(a) ==
    VarNew(Concat(a.stream, ZEmpty), Concat(a.working, ZEmpty))

\* min!: var_min, each group's least value mapped through $logic.
VarMin(a) ==
    VarNew(MinOut(GroupMin(a.stream)), MinOut(GroupMin(a.working)))

\* min! with another $logic.
VarMinBy(a, logic) ==
    LET m1 == GroupMin(a.stream)
        m2 == GroupMin(a.working)
    IN  VarNew(MapZ(m1, [r \in DOMAIN m1 |-> <<r[1], logic[r[2]]>>]),
               MapZ(m2, [r \in DOMAIN m2 |-> <<r[1], logic[r[2]]>>]))

\* leave!: outside the scope the collection is what the last iteration
\* holds.
VarLeave(tr) == VarNew(tr[Len(tr)].stream, tr[Len(tr)].working)

(***************************************************************************)
(* The driver and the correction loop (interactive-cc.rs; cc.rs builds the *)
(* same dataflow).                                                         *)
(***************************************************************************)
\* The graph files the loader is run on (none, a chain, a triangle), and the
\* records the lines of the driver are drawn from.  A query is
\* (node, label, T_bound, 0); the driver's T_bound is
\* Product::new(RootTimestamp::new(0), u32::max_value()).  The label 0 of
\* node 2 is asked for with that T_bound and with the least T_bound there
\* is, and so is the label 1, which node 2 holds only in passing when the
\* chain is loaded.
LoadPool  == {{}, {<<0, 1>>, <<1, 2>>}, {<<0, 1>>, <<1, 2>>, <<0, 2>>}}
EdgePool  == {<<0, 1>>, <<1, 2>>, <<0, 2>>}
LabelPool == {<<0, 0>>, <<2, 2>>}
QueryPool == {<<2, 0, <<0, MaxU32>>, 0>>, <<2, 0, <<0, 0>>, 0>>,
              <<2, 1, <<0, MaxU32>>, 0>>}

\* A *_must collection at (e,c); after the epoch has quiesced it no longer
\* changes with c.
MustAt(must, e, c) ==
    LET tr == must[e + 1]
    IN  IF c + 1 <= Len(tr) THEN tr[c + 1] ELSE tr[Len(tr)]

\* min1 at epoch e, and min2 at (e,c), over the iterations.
StreamMin(e) == InnerRun(graph[e + 1], label[e + 1])

WorkingMin(e, c) ==
    InnerRun(MustAt(graph_must, e, c), MustAt(label_must, e, c))

\* min1.concat(&min2) at (e,c); nothing before epoch 0 or round 0.
MinBoth(e, c) ==
    IF e < 0 \/ c < 0 THEN EmptyTrace
    ELSE ConcatTrace(StreamMin(e), WorkingMin(e, c))

\* var_min.stream.concat(&var_min.working) at (e,c).
OutBoth(e, c) ==
    IF e < 0 \/ c < 0 THEN EmptyTrace
    ELSE ConcatTrace(MinOutTrace(StreamMin(e)),
                     MinOutTrace(WorkingMin(e, c)))

\* The lifted records of the current epoch alone.
VisibleThisEpoch(lifted, e, c) ==
    {h \in lifted : h[2][1] = e /\ h[2][2] <= c}

\* The lifted records that .leave().enter(&$scope) shows at (e,c).
Visible(lifted, e, c) == {h \in lifted : TimeLeq(Outer(h[2]), <<e, c>>)}

Epoch == Len(graph) - 1

\* No *_must collection of any epoch up to this one changed in the last round.
Quiesced ==
    /\ corr >= 1
    /\ \A e \in 0..Epoch :
          /\ MustAt(graph_must, e, corr) = MustAt(graph_must, e, corr - 1)
          /\ MustAt(label_must, e, corr) = MustAt(label_must, e, corr - 1)

\* The query collection added to the depends of a combinator's result, and
\* the depends.stream of the result, of self and of other.
(***************************************************************************)
(* Delivery.  The deltas a producer sent at the times of DeliveryTimes     *)
(* reach lift! and a MonotonicVariable in batches, in any order; a batch   *)
(* holds deltas of one time.  consolidate stages the deltas of a time      *)
(* until the time is complete, and lift! gives one record of weight 1 for  *)
(* every entry of every batch it is handed, whatever the entry's weight.   *)
(* The MonotonicVariable holds at time t + 1 the threshold of what it held *)
(* at t plus what its source had accumulated at t.                         *)
(***************************************************************************)
DeliveryTimes == 0..1

DeltaPool == {0, 1} \X {1, -1, 2} \X DeliveryTimes

RECURSIVE SumEntries(_)
SumEntries(S) ==
    IF S = {} THEN 0
    ELSE LET x == CHOOSE y \in S : TRUE IN x[2] + SumEntries(S \ {x})

\* The net weight the entries give the datum r.
Net(entries, r) == SumEntries({x \in entries : x[1] = r})

\* The deltas of time t as (datum, weight) entries.
EntriesAt(deltas, t) == {<<d[1], d[2]>> : d \in {x \in deltas : x[3] = t}}

\* A consolidate that hands every batch on as it comes.
ConsolidateOutEager(entries, complete) == entries

\* $stream.consolidate(): nothing before the time is complete, then one
\* entry for every datum whose weights do not cancel.
ConsolidateOut(entries, complete) ==
    IF complete
    THEN {<<r, Net(entries, r)>> : r \in {x[1] : x \in entries}}
             \ ({x[1] : x \in entries} \X {0})
    ELSE {}

\* lift!'s loop over a batch: session.give(((datum, time), 1)) for every
\* (datum, _weight).
LiftBatch(entries, t) ==
    MapZ(OfSet(entries), [x \in entries |-> <<x[1], t>>])

\* The source of the MonotonicVariable accumulated up to time t.
SourceAt(deltas, t) ==
    MapZ([d \in {x \in deltas : x[3] <= t} |-> d[2]],
         [d \in {x \in deltas : x[3] <= t} |-> d[1]])

NoDelivery ==
    [sent |-> {}, pending |-> {}, buffer |-> [t \in DeliveryTimes |-> {}],
     got |-> {}, lifted |-> ZEmpty, stream |-> <<ZEmpty>>, notified |-> {},
     batches |-> [t \in DeliveryTimes |-> 0]]

(***************************************************************************)
(* A MonotonicVariable by itself: add is called up to MaxAdds times, the   *)
(* variable is dropped, and the loop runs up to MaxIter iterations with    *)
(* any collections of AccPool in the sources.                              *)
(***************************************************************************)
AccRecs == {0, 1}

AccPool ==
    {[r \in {x \in AccRecs : w[x] # 0} |-> w[r]] : w \in [AccRecs -> {-1, 0, 2}]}

\* MonotonicVariable::new: the feedback handle is held, nothing was added,
\* and the loop variable is empty at iteration 0.
NoAcc ==
    [feedback |-> TRUE, adds |-> 0, wired |-> 0, stream |-> <<ZEmpty>>,
     sources |-> << >>]

\* The second dataflow before its first round.
NoTrip ==
    [graph_must |-> << >>, label_must |-> << >>, liftedMin |-> {},
     liftedOut |-> {}, liftedIn |-> {}]

NoCombDemands ==
    [qry |-> ZEmpty, res |-> ZEmpty, self |-> ZEmpty, other |-> ZEmpty]

Init ==
    /\ round = 0
    /\ pc = "load"
    /\ corr = 0
    /\ graph = << >>
    /\ label = << >>
    /\ query = << >>
    /\ graph_must = << >>
    /\ label_must = << >>
    /\ liftedMin = {}
    /\ liftedOut = {}
    /\ depends = NoDemands
    /\ cva = VarNew(ZEmpty, ZEmpty)
    /\ cvb = VarNew(ZEmpty, ZEmpty)
    /\ cop = "none"
    /\ cres = VarNew(ZEmpty, ZEmpty)
    /\ cdem = NoCombDemands
    /\ trip = NoTrip
    /\ dlv = NoDelivery
    /\ acc = NoAcc

\* A *_must that enters a new epoch with what it held at the end of the
\* epoch before.
MustStartCarried(must) ==
    IF must = << >> THEN <<ZEmpty>> ELSE <<must[Len(must)][Len(must[Len(must)])]>>

\* MonotonicVariable::new: the loop variable of the correction scope holds
\* nothing at correction round 0 of an epoch, whatever it held before.
MustStart(must) == <<ZEmpty>>

\* advance_to(round + 1) on every input: epoch `round` is closed with the
\* collections g, l and q, and the stepping starts at correction round 0.
Advance(g, l, q) ==
    /\ graph' = Append(graph, g)
    /\ label' = Append(label, l)
    /\ query' = Append(query, q)
    /\ graph_must' = Append(graph_must, MustStart(graph_must))
    /\ label_must' = Append(label_must, MustStart(label_must))
    /\ corr' = 0
    /\ pc' = "step"
    /\ UNCHANGED <<round, liftedMin, liftedOut, depends, combVars, trip, dlv, acc>>

\* Data loading: every edge of the file once, and the label (node, node) of
\* every node with an outgoing edge.
Load(g) ==
    /\ pc = "load"
    /\ Advance(OfSet(g), OfSet({<<e[1], e[1]>> : e \in g}), ZEmpty)

Last(s) == s[Len(s)]

\* The line "graph +|- source target".  The lines the model reads keep every
\* multiplicity of the inputs within 0..MaxWeight: a record is retracted only
\* while the input holds it.
LineGraph(r, sign) ==
    /\ pc = "idle"
    /\ round <= MaxRound
    /\ Wt(Last(graph), r) + sign \in 0..MaxWeight
    /\ Advance(Concat(Last(graph), [x \in {r} |-> sign]), Last(label),
               Last(query))

\* The line "label +|- source target".
LineLabel(r, sign) ==
    /\ pc = "idle"
    /\ round <= MaxRound
    /\ Wt(Last(label), r) + sign \in 0..MaxWeight
    /\ Advance(Last(graph), Concat(Last(label), [x \in {r} |-> sign]),
               Last(query))

\* The line "query +|- node", and the query.send of cc.rs: a demand
\* <<node, label, T_bound, q>> is added to or taken from the query input.
LineQuery(r, sign) ==
    /\ pc = "idle"
    /\ round <= MaxRound
    /\ Wt(Last(query), r) + sign \in 0..MaxWeight
    /\ Advance(Last(graph), Last(label),
               Concat(Last(query), [x \in {r} |-> sign]))

\* Any other line: nothing is sent, and the inputs advance all the same.
LineOther ==
    /\ pc = "idle"
    /\ round <= MaxRound
    /\ Advance(Last(graph), Last(label), Last(query))

\* One round of the correction scope at (Epoch, corr): the data side runs
\* with the *_must collections of this round as `working`, lift! records its
\* deltas, the explanation scope runs to its fixed point, and the demands
\* that leave it are intersected with the inputs and added to *_must.
CorrectRound ==
    /\ \E e \in {Epoch}, c \in {corr} :
       \E lm \in {liftedMin \cup
                    Lift(MinBoth(e, c), MinBoth(e, c - 1),
                         MinBoth(e - 1, c), MinBoth(e - 1, c - 1), e, c)} :
       \E lo \in {liftedOut \cup
                    Lift(OutBoth(e, c), OutBoth(e, c - 1),
                         OutBoth(e - 1, c), OutBoth(e - 1, c - 1), e, c)} :
       \E D \in {Explain(NoDemands, query[e + 1],
                         Visible(lo, e, c), Visible(lm, e, c))} :
          /\ liftedMin' = lm
          /\ liftedOut' = lo
          /\ depends' = D
          /\ graph_must' =
                [graph_must EXCEPT ![e + 1] =
                    Append(@, MustNext(MustAt(graph_must, e, c), D.dg,
                                       graph[e + 1]))]
          /\ label_must' =
                [label_must EXCEPT ![e + 1] =
                    Append(@, MustNext(MustAt(label_must, e, c), D.dl,
                                       label[e + 1]))]
          /\ corr' = c + 1
    /\ UNCHANGED <<round, pc, graph, label, query>>

\* The worker steps the dataflow while a *_must collection still changes.
Correct ==
    /\ pc = "step"
    /\ ~Quiesced
    /\ corr < MaxCorr
    /\ CorrectRound
    /\ UNCHANGED <<combVars, trip, dlv, acc>>

\* step_while(|| probe.lt(&query.time())) returns; round += 1.
Probe ==
    /\ pc = "step"
    /\ Quiesced
    /\ pc' = "idle"
    /\ round' = round + 1
    /\ UNCHANGED <<corr, graph, label, query, graph_must, label_must,
                   liftedMin, liftedOut, depends, combVars, trip, dlv, acc>>

Next ==
    \/ \E g \in LoadPool : Load(g)
    \/ \E r \in EdgePool, sign \in {1, -1} : LineGraph(r, sign)
    \/ \E r \in LabelPool, sign \in {1, -1} : LineLabel(r, sign)
    \/ \E r \in QueryPool, sign \in {1, -1} : LineQuery(r, sign)
    \/ LineOther
    \/ Correct
    \/ Probe

Spec == Init /\ [][Next]_vars

\* The worker keeps stepping the dataflow while the probe is behind the
\* input, and the step_while loop returns once it is not: weak fairness of
\* Correct, written out with the condition under which Correct is enabled,
\* and weak fairness of Probe.
CorrectEnabled == pc = "step" /\ ~Quiesced /\ corr < MaxCorr

FairSpec ==
    /\ Spec
    /\ ([]<>(~CorrectEnabled) \/ []<><<Correct>>_vars)
    /\ WF_vars(Probe)

(***************************************************************************)
(* What the properties below speak of.                                     *)
(***************************************************************************)
\* The epochs whose stepping has returned.
QuietEpochs == IF pc = "idle" THEN 0..Epoch ELSE 0..(Epoch - 1)

\* graph_must.stream.leave(), label_must.stream.leave() of a quiet epoch.
FinalMust(must, e) == Last(must[e + 1])

\* The queries of positive net weight at epoch e.
LiveQueries(e) == Support(Threshold(query[e + 1]))

\* The correction rounds an epoch has gone through so far.
Rounds(e) == Len(graph_must[e + 1])

\* The cap on the correction rounds is never what stops the stepping.
NotCapped == (pc = "step" /\ corr = MaxCorr) => Quiesced

\* Every inner loop of the model is stable at the end of each block of
\* iterations, so that the iterations left out carry no delta.
InnerStable ==
    \A e \in 0..Epoch :
        /\ StableRun(StreamMin(e))
        /\ \A c \in 0..(Rounds(e) - 1) : StableRun(WorkingMin(e, c))

(***************************************************************************)
(* C3.  In every correction round and at quiescence, graph_must and        *)
(* label_must hold only records that the input of that epoch holds with    *)
(* positive multiplicity: a demand that leaves the explanation scope adds  *)
(* its (k,v) only if (k,v) survives the semijoin with the input.           *)
(***************************************************************************)
MustWithinInput ==
    \A e \in 0..Epoch : \A c \in 1..Rounds(e) :
        /\ \A r \in Support(graph_must[e + 1][c]) : Wt(graph[e + 1], r) > 0
        /\ \A r \in Support(label_must[e + 1][c]) : Wt(label[e + 1], r) > 0

\* A round in which a demanded record is kept and another demanded record,
\* absent from the input, is dropped by the semijoin.
MustWithinInputWitness ==
    /\ pc = "step"
    /\ corr >= 1
    /\ Support(Last(Last(graph_must))) # {}
    /\ \E d \in Support(depends.dg) : Wt(Last(graph), <<d[1], d[2]>>) = 0
    /\ \E d \in Support(depends.dl) : Wt(Last(label), <<d[1], d[2]>>) = 0

(***************************************************************************)
(* C4.  Within one epoch the *_must collections only grow from one         *)
(* correction round to the next, and every record in them has multiplicity *)
(* 1, whatever the multiplicities of the demands and of the input records. *)
(***************************************************************************)
GrowsBy(tr) ==
    /\ \A c \in 1..(Len(tr) - 1) : Support(tr[c]) \subseteq Support(tr[c + 1])
    /\ \A c \in 1..Len(tr) : \A r \in Support(tr[c]) : tr[c][r] = 1

MustMonotone ==
    \A e \in 0..Epoch :
        GrowsBy(graph_must[e + 1]) /\ GrowsBy(label_must[e + 1])

\* A record held twice by the input and demanded more than once is in
\* graph_must, after a round that added nothing and a round that did.
MustMonotoneWitness ==
    /\ pc = "step"
    /\ corr >= 2
    /\ \E r \in Support(Last(Last(graph_must))) :
          /\ Wt(Last(graph), r) = 2
          /\ Cardinality({d \in Support(depends.dg) :
                              <<d[1], d[2]>> = r}) >= 2
          /\ r \notin Support(Last(graph_must)[1])

(***************************************************************************)
(* Replaying an input selection: the labels the inner loop leaves with     *)
(* when it is run on the given graph and labels alone.                     *)
(***************************************************************************)
ReplayOut(g, lab) == MinOut(InnerRun(g, lab)[NIter])

\* final_labels.stream and final_labels.working of a quiet epoch.
StreamOut(e) == ReplayOut(graph[e + 1], label[e + 1])

WorkingOut(e) ==
    ReplayOut(FinalMust(graph_must, e), FinalMust(label_must, e))

\* The records the live queries of epoch e name that are outputs at e.
Queried(e) ==
    {<<q[1], q[2]>> : q \in LiveQueries(e)} \cap Support(StreamOut(e))

(***************************************************************************)
(* C1.  Replay soundness: at every quiet epoch, each live queried record   *)
(* that is an output of the computation on the whole input is also an      *)
(* output of the computation replayed on graph_must and label_must alone.  *)
(***************************************************************************)
ReplaySound ==
    \A e \in QuietEpochs : Queried(e) \subseteq Support(WorkingOut(e))

\* A quiet epoch, after the graph has changed, at which a queried output is
\* re-derived from a proper part of the input.
ReplaySoundWitness ==
    /\ pc = "idle"
    /\ Epoch >= 2
    /\ graph[Epoch + 1] # graph[1]
    /\ Queried(Epoch) # {}
    /\ Support(FinalMust(graph_must, Epoch)) # {}
    /\ Support(FinalMust(graph_must, Epoch)) # Support(graph[Epoch + 1])

(***************************************************************************)
(* C2.  Minimality: at every quiet epoch, taking any one record out of     *)
(* graph_must or label_must and replaying loses at least one live queried  *)
(* output.                                                                 *)
(***************************************************************************)
Without(z, r) == [x \in DOMAIN z \ {r} |-> z[x]]

Needed(e) ==
    LET gm == FinalMust(graph_must, e)
        lm == FinalMust(label_must, e)
    IN  /\ \A r \in Support(gm) :
              ~(Queried(e) \subseteq Support(ReplayOut(Without(gm, r), lm)))
        /\ \A r \in Support(lm) :
              ~(Queried(e) \subseteq Support(ReplayOut(gm, Without(lm, r))))

MustMinimal == \A e \in QuietEpochs : Needed(e)

\* C2 as amended: minimality holds at the quiet epochs up to which the
\* graph and the labels are those loaded at epoch 0 and every live query
\* names an output.
Static(e) ==
    \A d \in 0..e : graph[d + 1] = graph[1] /\ label[d + 1] = label[1]

QueriesAreOutputs(e) ==
    \A q \in LiveQueries(e) : <<q[1], q[2]>> \in Support(StreamOut(e))

MustMinimalWhenStatic ==
    \A e \in QuietEpochs : (Static(e) /\ QueriesAreOutputs(e)) => Needed(e)

\* A query is live over the loaded triangle and is explained by one of the
\* three edges.
MustMinimalWitness ==
    /\ pc = "idle"
    /\ Epoch >= 1
    /\ Static(Epoch)
    /\ QueriesAreOutputs(Epoch)
    /\ Queried(Epoch) # {}
    /\ Cardinality(Support(graph[1])) = 3
    /\ Cardinality(Support(FinalMust(graph_must, Epoch))) = 1

(***************************************************************************)
(* C5.  The correction loop of every epoch terminates: the rounds in which *)
(* graph_must or label_must strictly grows are at most as many as the      *)
(* records of the input at that epoch, and the stepping of every epoch     *)
(* comes to the point where the probe sees no pending work.                *)
(***************************************************************************)
GrowthRounds(e) ==
    {c \in 1..(Rounds(e) - 1) :
        \/ graph_must[e + 1][c] # graph_must[e + 1][c + 1]
        \/ label_must[e + 1][c] # label_must[e + 1][c + 1]}

InputRecords(e) ==
    Cardinality(Support(graph[e + 1])) + Cardinality(Support(label[e + 1]))

GrowthBounded ==
    \A e \in 0..Epoch : Cardinality(GrowthRounds(e)) <= InputRecords(e)

CorrectionTerminates ==
    /\ []GrowthBounded
    /\ []((pc = "step") => <>(pc = "idle"))

\* The stepping of an epoch has returned after a round that grew a *_must
\* and a later round that changed nothing.
CorrectionTerminatesWitness ==
    /\ pc = "idle"
    /\ Epoch >= 1
    /\ GrowthRounds(Epoch) # {}
    /\ Rounds(Epoch) >= 3
    /\ FinalMust(graph_must, Epoch) = graph_must[Epoch + 1][Rounds(Epoch) - 1]

(***************************************************************************)
(* C6.  Retraction: when a query is sent with weight +1 at one epoch and   *)
(* with weight -1 at a later one, the graph, the labels and the other      *)
(* queries staying as they are, graph_must and label_must are at           *)
(* quiescence what they were at the quiet epoch before the query was sent. *)
(***************************************************************************)
SameData(d, e) == graph[d + 1] = graph[e + 1] /\ label[d + 1] = label[e + 1]

SameMust(d, e) ==
    /\ FinalMust(graph_must, d) = FinalMust(graph_must, e)
    /\ FinalMust(label_must, d) = FinalMust(label_must, e)

\* Epoch e sends q with the given weight on top of the queries of e - 1.
Sends(e, q, w) == query[e + 1] = Concat(query[e], [x \in {q} |-> w])

\* A query is sent at epoch s and retracted at epoch e, and nothing else is
\* sent from s to e.
Retracted(s, e) ==
    /\ \A d \in (s - 1)..e : SameData(d, e)
    /\ \A d \in s..(e - 1) : query[d + 1] = query[s + 1]
    /\ \E q \in QueryPool : Sends(s, q, 1) /\ Sends(e, q, -1)

RetractionRestores ==
    \A e \in QuietEpochs : \A s \in 1..(e - 1) :
        Retracted(s, e) => SameMust(e, s - 1)

\* A query that added records to graph_must while it was live has been
\* retracted, while another query stays live.
RetractionRestoresWitness ==
    /\ pc = "idle"
    /\ Epoch >= 3
    /\ Retracted(Epoch - 1, Epoch)
    /\ ~SameMust(Epoch - 1, Epoch - 2)
    /\ LiveQueries(Epoch) # {}
    /\ Support(FinalMust(graph_must, Epoch)) # {}

(***************************************************************************)
(* C7.  Query idempotence: sending a query that is already live once more, *)
(* the graph and the labels staying as they are, leaves graph_must and     *)
(* label_must at quiescence as they were with the query sent once.         *)
(***************************************************************************)
SentAgain(e) ==
    /\ SameData(e - 1, e)
    /\ \E q \in QueryPool : Wt(query[e], q) >= 1 /\ Sends(e, q, 1)

QueryIdempotent ==
    \A e \in QuietEpochs : (e >= 1 /\ SentAgain(e)) => SameMust(e, e - 1)

\* A query that is explained by a non-empty graph_must is live twice.
QueryIdempotentWitness ==
    /\ pc = "idle"
    /\ Epoch >= 2
    /\ SentAgain(Epoch)
    /\ Support(FinalMust(graph_must, Epoch)) # {}
    /\ \E q \in Support(Last(query)) : Last(query)[q] = 2

(***************************************************************************)
(* C8.  Time monotonicity of min!: every demand (x, val, t, q) that min!   *)
(* adds to the depends of its input is there on behalf of a demand         *)
(* (x, l, t*, q) on its output with t <= t* in the product order; nothing  *)
(* later than, or incomparable with, every demanded time is demanded.      *)
(***************************************************************************)
BackedInTime(o, dmin) ==
    \E d \in Support(dmin) :
        o[1] = d[1] /\ o[4] = d[4] /\ TimeLeq(o[3], d[3])

MinTimeMonotone == \A o \in Support(depends.dopt) : BackedInTime(o, depends.dmin)

\* min! has answered a demand while the lifted minimums hold, for the same
\* key and with a value not above the demanded one, a record at a time that
\* is not below the time of the demand.
MinTimeMonotoneWitness ==
    /\ Support(depends.dopt) # {}
    /\ \E d \in Support(depends.dmin) :
       \E h \in Visible(liftedMin, Epoch, corr - 1) :
          /\ h[1][1] = d[1]
          /\ Logic(h[1][2]) <= d[2]
          /\ ~TimeLeq(h[2], d[3])

(***************************************************************************)
(* The combinators one at a time: two Variables are made by Variable::new  *)
(* from an input and a part of it (as var_graph is from graph and          *)
(* graph_must), and one combinator is applied to them.                     *)
(***************************************************************************)
\* The records the two Variables are made of, (key, (value, source)) as in
\* var_options, and the (stream, working) multiplicities one record can
\* have: the working multiplicity is not above the stream's.
CombRecs  == {<<0, <<0, 0>>>>, <<0, <<0, 2>>>>, <<0, <<1, 2>>>>,
              <<0, <<1, 0>>>>, <<2, <<0, 0>>>>}
CombRecsB == {<<0, <<0, 0>>>>, <<2, <<1, 2>>>>}
WeightPairs == {<<0, 0>>, <<1, 0>>, <<1, 1>>, <<2, 1>>}

\* The Variable whose record r has the multiplicities m[r].
VarOf(m) ==
    VarNew([r \in {x \in DOMAIN m : m[x][1] # 0} |-> m[r][1]],
           [r \in {x \in DOMAIN m : m[x][2] # 0} |-> m[r][2]])

\* The iterations of the child scope the combinators are read at, and the
\* iteration a record enters at (that of its key, as in cc.rs).
CombIters == <<0, EnterAt(MaxNode)>>

CombAt == [r \in CombRecs |-> EnterAt(r[1])]

\* The invertible function of the map: (x, (l, y)) to (y, (l, x)).
CombLogic == [r \in CombRecs |-> <<r[2][2], <<r[2][1], r[1]>>>>]

CombNew ==
    /\ cop = "none"
    /\ \E ma \in [CombRecs -> WeightPairs], mb \in [CombRecsB -> WeightPairs] :
          /\ cva' = VarOf(ma)
          /\ cvb' = VarOf(mb)
          /\ cres' = VarOf(ma)
    /\ cop' = "new"
    /\ UNCHANGED <<cdem, dataflowVars, trip, dlv, acc>>

Applied(name, v) ==
    /\ cop = "new"
    /\ cop' = name
    /\ cres' = v
    /\ UNCHANGED <<cva, cvb, cdem, dataflowVars, trip, dlv, acc>>

CombJoinU == Applied("join_u", VarJoinU(cva, cvb))

CombMapInverse == Applied("map_inverse", VarMapInverse(cva, CombLogic))

CombConcat == Applied("concat", VarConcat(cva, cvb))

CombExcept == Applied("except", VarExcept(cva, cvb))

\* except!(var1, var2, scope)
CombExceptMacro == Applied("except_macro", VarExcept(cva, cvb))

CombEnter == Applied("enter", VarEnter(cva))

CombEnterAt ==
    \E n \in 1..Len(CombIters) :
        Applied("enter_at", VarEnterAt(cva, CombAt, CombIters[n]))

CombConsolidate == Applied("consolidate", VarConsolidate(cva))

CombMin == Applied("min", VarMin(cva))

\* min!(var, |(_l,d)| d, scope)
CombVals == {r[2] : r \in CombRecs}

CombSecond == [v \in CombVals |-> v[2]]

CombMinBy == Applied("min_by", VarMinBy(cva, CombSecond))

CombLeave ==
    Applied("leave",
            VarLeave([n \in 1..Len(CombIters) |->
                          VarEnterAt(cva, CombAt, CombIters[n])]))

\* X.concat(X).except(X), X being the first Variable.
CombConcatExcept ==
    Applied("concat_except", VarExcept(VarConcat(cva, cva), cva))

\* The combinators whose result lives in the child scope, and the times and
\* query identifiers the queries on a result are made with: the first and a
\* later time of the result's scope.
InChild == {"enter", "enter_at"}

\* The loop variables: the feedback written out in the examples, and
\* VariableFeedback::set.
Loops == {"feedback", "feedback_set"}

CombFeedback == Applied("feedback", VarLoop(cva))

CombFeedbackSet == Applied("feedback_set", VarLoop(cva))

CombStamps ==
    IF cop \in InChild
    THEN {<<<<0, 0, 0>>, 0>>, <<<<1, 2, 0>>, 1>>,
          <<<<1, 2, EnterAt(MaxNode)>>, 1>>}
    ELSE IF cop \in Loops
    THEN {<<<<0, 0, 0>>, 0>>, <<<<1, 2, 1>>, 1>>,
          <<<<1, 2, EnterAt(MaxNode)>>, 1>>}
    ELSE {<<<<0, 0>>, 0>>, <<<<1, MaxU32>>, 1>>}

\* A query for every record of the result's stream, with the weight the
\* record has there, made with the time and identifier of every stamp of
\* sts.
CombQueries(sts) ==
    [d \in {<<x[1][1], x[1][2], x[2][1], x[2][2]>> :
                x \in Support(cres.stream) \X sts}
        |-> cres.stream[<<d[1], d[2]>>]]

\* The inverse of CombLogic, on the records of a result.
CombInverse ==
    [r \in Support(cres.stream) |-> <<r[2][2], <<r[2][1], r[1]>>>>]

\* result.depends.add(&query): the depends of the result, and what the
\* combinator that made the result adds to the depends of its inputs.
CombDepends(qry) ==
    LET res == MonotonicRun(ZEmpty, <<qry>>)
        cat == MonotonicRun(ZEmpty, <<SameDemands(res)>>)
    IN  [qry   |-> qry,
         res   |-> res,
         self  |->
            CASE cop = "join_u" ->
                    MonotonicRun(ZEmpty, <<JoinDemandsSelf(res)>>)
              [] cop = "map_inverse" ->
                    MonotonicRun(ZEmpty, <<MapInverseDemands(res, CombInverse)>>)
              [] cop \in InChild ->
                    MonotonicRun(ZEmpty, <<EnterDemands(res)>>)
              [] cop = "feedback" ->
                    MonotonicRun(ZEmpty, <<FeedbackDemands(res)>>)
              [] cop = "feedback_set" ->
                    MonotonicRun(ZEmpty, <<SetDemands(res)>>)
              [] cop = "concat_except" ->
                    MonotonicRun(ZEmpty, <<SameDemands(cat), SameDemands(cat),
                                           SameDemands(res)>>)
              [] OTHER -> MonotonicRun(ZEmpty, <<SameDemands(res)>>),
         other |->
            CASE cop = "join_u" ->
                    MonotonicRun(ZEmpty, <<JoinDemandsOther(res)>>)
              [] cop \in {"concat", "except", "except_macro"} ->
                    MonotonicRun(ZEmpty, <<SameDemands(res)>>)
              [] OTHER -> ZEmpty]

\* The combinators whose demands need no lifted history.
Plain == {"join_u", "map_inverse", "concat", "except", "enter", "enter_at",
          "consolidate", "concat_except", "except_macro", "feedback",
          "feedback_set"}

CombDemand ==
    /\ cop \in Plain
    /\ cdem = NoCombDemands
    /\ Support(cres.stream) # {}
    /\ \E sts \in SUBSET CombStamps :
          /\ sts # {}
          /\ cdem' = CombDepends(CombQueries(sts))
    /\ UNCHANGED <<cva, cvb, cop, cres, dataflowVars, trip, dlv, acc>>

CombNext ==
    \/ CombNew
    \/ CombJoinU
    \/ CombMapInverse
    \/ CombConcat
    \/ CombExcept
    \/ CombExceptMacro
    \/ CombFeedback
    \/ CombFeedbackSet
    \/ CombEnter
    \/ CombEnterAt
    \/ CombConsolidate
    \/ CombMin
    \/ CombMinBy
    \/ CombLeave
    \/ CombConcatExcept
    \/ CombDemand

CombSpec == Init /\ [][CombNext]_vars

(***************************************************************************)
(* C10.  Whatever combinator made it, a Variable holds every record in     *)
(* `working` with at most the multiplicity it has in `stream`, given that  *)
(* the Variables it was made from do.                                      *)
(***************************************************************************)
Within(v) ==
    \A r \in Support(v.working) \cup Support(v.stream) :
        Wt(v.working, r) <= Wt(v.stream, r)

Positive(v) ==
    /\ \A r \in Support(v.working) : v.working[r] > 0
    /\ \A r \in Support(v.stream) : v.stream[r] > 0

KeepsWithin == {"new", "join_u", "map_inverse", "concat", "enter", "enter_at",
                "consolidate", "leave"}

OutputAt(q, d) ==
    \E n \in 1..NIter : Wt(MinOut(StreamMin(d)[n]), <<q[1], q[2]>>) > 0

\* No epoch up to the epoch of T_bound has the record as an output.
OutOfRange(q, e) ==
    \A d \in 0..e : d <= q[3][1] => ~OutputAt(q, d)

MustEmpty(e) ==
    /\ FinalMust(graph_must, e) = ZEmpty
    /\ FinalMust(label_must, e) = ZEmpty

OutOfRangeEmpty ==
    \A e \in QuietEpochs :
        (\A q \in LiveQueries(e) : OutOfRange(q, e)) => MustEmpty(e)

\* C9 as amended: T_bound is not consulted; graph_must and label_must are
\* empty when no epoch so far has had the record of any live query as an
\* output, and the stepping returns.
NeverOutput(q, e) == \A d \in 0..e : ~OutputAt(q, d)

NeverOutputEmpty ==
    \A e \in QuietEpochs :
        (\A q \in LiveQueries(e) : NeverOutput(q, e)) => MustEmpty(e)

\* The stepping has returned with a query live for a record that the loaded
\* triangle never has as an output, while it has other labels of the node.
NeverOutputWitness ==
    /\ pc = "idle"
    /\ Epoch >= 1
    /\ LiveQueries(Epoch) # {}
    /\ \A q \in LiveQueries(Epoch) : NeverOutput(q, Epoch)
    /\ \E q \in LiveQueries(Epoch) :
          \E r \in Support(StreamOut(Epoch)) : r[1] = q[1] /\ r[2] <= q[2]

(***************************************************************************)
(* C11.  X.concat(X).except(X) has the stream of X, every record with the  *)
(* multiplicity it has in X, and the queries put on it add to the *_must   *)
(* of X's input the records that the same queries put on X itself add.     *)
(***************************************************************************)
\* The records a depends collection adds to the *_must of the input that
\* X was made from by Variable::new, in one correction round.
MustOf(need, v) == MustNext(ZEmpty, need, v.stream)

\* The depends of X with the queries put on X itself.
Direct(qry) == MonotonicRun(ZEmpty, <<qry>>)

ConcatExceptIdentity ==
    cop = "concat_except" =>
        /\ cres.stream = cva.stream
        /\ MustOf(cdem.self, cva) = MustOf(Direct(cdem.qry), cva)

\* Queries of weight 1 and 2 have been put on X.concat(X).except(X), and
\* they add records to the *_must.
ConcatExceptWitness ==
    /\ cop = "concat_except"
    /\ \E d \in Support(cdem.qry) : cdem.qry[d] = 2
    /\ \E d \in Support(cdem.qry) : cdem.qry[d] = 1
    /\ Cardinality(Support(MustOf(cdem.self, cva))) >= 2
    /\ cva.working # cva.stream

(***************************************************************************)
(* The dataflow once more, with Y = leave!(final_labels.enter(S)) for a    *)
(* nested scope S and the queries added to the depends of Y instead of     *)
(* final_labels.  It is stepped together with the dataflow above, on the   *)
(* same inputs; its *_must collections and lifted histories are in `trip`. *)
(***************************************************************************)
\* A *_must of the second dataflow at (e,c); an epoch whose first round has
\* not run holds nothing yet.
TripMustAt(must, e, c) ==
    IF e + 1 > Len(must) THEN ZEmpty ELSE MustAt(must, e, c)

TripWorkingMin(e, c) ==
    InnerRun(TripMustAt(trip.graph_must, e, c),
             TripMustAt(trip.label_must, e, c))

TripMinBoth(e, c) ==
    IF e < 0 \/ c < 0 THEN EmptyTrace
    ELSE ConcatTrace(StreamMin(e), TripWorkingMin(e, c))

TripOutBoth(e, c) ==
    IF e < 0 \/ c < 0 THEN EmptyTrace
    ELSE ConcatTrace(MinOutTrace(StreamMin(e)),
                     MinOutTrace(TripWorkingMin(e, c)))

\* final_labels.enter(S): stream.concat(&working) is at every iteration of S
\* what final_labels holds at (e,c), so that its deltas are at iteration 0.
TripIn(e, c) == TripOutBoth(e, c)[NIter]

\* lift! of the entered working collection alone.
LiftInWorking(e, c) ==
    LET w == [x \in {<<e, c>>, <<e, c - 1>>, <<e - 1, c>>, <<e - 1, c - 1>>} |->
                 IF x[1] < 0 \/ x[2] < 0 THEN ZEmpty
                 ELSE MinOutTrace(TripWorkingMin(x[1], x[2]))[NIter]]
    IN  {<<r, <<e, c, 0>>>> :
            r \in Support(Concat(Concat(w[<<e, c>>], Negate(w[<<e, c - 1>>])),
                                 Concat(Negate(w[<<e - 1, c>>]),
                                        w[<<e - 1, c - 1>>])))}

\* lift! of final_labels.enter(S).stream.concat(&working): every record whose
\* consolidated delta at (e,c,0) is not zero.
LiftIn(e, c) ==
    {<<r, <<e, c, 0>>>> :
        r \in Support(Concat(Concat(TripIn(e, c), Negate(TripIn(e, c - 1))),
                             Concat(Negate(TripIn(e - 1, c)),
                                    TripIn(e - 1, c - 1))))}

\* What the queries on Y add to the depends of final_labels: leave! takes
\* them to the entered collection, and enter takes them on, without the
\* inner time.
TripQueries(qry, li) ==
    EnterDemands(
        MonotonicRun(ZEmpty,
            <<LeaveDemands(MonotonicRun(ZEmpty, <<qry>>), li)>>))

TripQuiesced ==
    /\ corr >= 1
    /\ \A e \in 0..Epoch :
          /\ TripMustAt(trip.graph_must, e, corr) =
                TripMustAt(trip.graph_must, e, corr - 1)
          /\ TripMustAt(trip.label_must, e, corr) =
                TripMustAt(trip.label_must, e, corr - 1)

\* The *_must of the second dataflow with the round c of epoch e added.
TripAppend(must, e, m) ==
    IF e + 1 > Len(must) THEN Append(must, <<ZEmpty, m>>)
    ELSE [must EXCEPT ![e + 1] = Append(@, m)]

\* query.send with the T_bound <<0, 0>> in place of the driver's.
QueryBound(qry) ==
    MapZ(qry, [d \in DOMAIN qry |-> <<d[1], d[2], <<0, 0>>, d[4]>>])

\* One round of the second dataflow; with rebound set it is the dataflow of
\* the driver itself, its queries sent with the other T_bound.
TripRoundWith(rebound) ==
    \E e \in {Epoch}, c \in {corr} :
    \E lm \in {trip.liftedMin \cup
                 Lift(TripMinBoth(e, c), TripMinBoth(e, c - 1),
                      TripMinBoth(e - 1, c), TripMinBoth(e - 1, c - 1), e, c)} :
    \E lo \in {trip.liftedOut \cup
                 Lift(TripOutBoth(e, c), TripOutBoth(e, c - 1),
                      TripOutBoth(e - 1, c), TripOutBoth(e - 1, c - 1), e, c)} :
    \E li \in {trip.liftedIn \cup LiftIn(e, c)} :
    \E D \in {Explain(NoDemands,
                      IF rebound THEN QueryBound(query[e + 1])
                      ELSE TripQueries(query[e + 1], Visible(li, e, c)),
                      Visible(lo, e, c), Visible(lm, e, c))} :
        trip' = [graph_must |->
                    TripAppend(trip.graph_must, e,
                        MustNext(TripMustAt(trip.graph_must, e, c), D.dg,
                                 graph[e + 1])),
                 label_must |->
                    TripAppend(trip.label_must, e,
                        MustNext(TripMustAt(trip.label_must, e, c), D.dl,
                                 label[e + 1])),
                 liftedMin |-> lm,
                 liftedOut |-> lo,
                 liftedIn |-> li]

TripRound == TripRoundWith(FALSE)

BoundRound == TripRoundWith(TRUE)

\* One round of the correction scope of both dataflows.
TripCorrect ==
    /\ pc = "step"
    /\ ~(Quiesced /\ TripQuiesced)
    /\ corr < MaxCorr
    /\ CorrectRound
    /\ TripRound
    /\ UNCHANGED <<combVars, dlv, acc>>

\* step_while returns when neither dataflow has pending work.
TripProbe == TripQuiesced /\ Probe

TripNext ==
    \/ \E g \in LoadPool : Load(g)
    \/ \E r \in EdgePool, sign \in {1, -1} : LineGraph(r, sign)
    \/ \E r \in QueryPool, sign \in {1, -1} : LineQuery(r, sign)
    \/ TripCorrect
    \/ TripProbe

TripSpec == Init /\ [][TripNext]_vars

(***************************************************************************)
(* C12.  Enter/leave round trip: at every quiet epoch the queries put on   *)
(* leave!(X.enter(S)) have given the same graph_must and label_must as the *)
(* same queries put on X itself, X being final_labels.                     *)
(***************************************************************************)
TripSameMust(e) ==
    /\ FinalMust(trip.graph_must, e) = FinalMust(graph_must, e)
    /\ FinalMust(trip.label_must, e) = FinalMust(label_must, e)

HeldByX(q, e) ==
    \E d \in 0..e : <<q[1], q[2]>> \in Support(StreamOut(d))

ChainLabels == {<<n, n>> : n \in 0..ChainNode}

ChainQueries == {<<ChainNode, 0, <<0, MaxU32>>, 0>>,
                 <<ChainNode, 2, <<0, MaxU32>>, 0>>}

ChainCut == <<1, 2>>

\* cc.rs: query.send and graph.send, then advance_to(round + 1).
RoundBoth(q, r, sign) ==
    /\ pc = "idle"
    /\ round <= MaxRound
    /\ Wt(Last(query), q) + 1 \in 0..MaxWeight
    /\ Wt(Last(graph), r) + sign \in 0..MaxWeight
    /\ Advance(Concat(Last(graph), [x \in {r} |-> sign]), Last(label),
               Concat(Last(query), [x \in {q} |-> 1]))

ChainNext ==
    \/ Load(ChainGraph)
    \/ LineLabel(<<ChainNode, ChainNode>>, 1)
    \/ \E sign \in {1, -1} : LineGraph(ChainCut, sign)
    \/ \E q \in ChainQueries, sign \in {1, -1} : LineQuery(q, sign)
    \/ \E q \in ChainQueries, sign \in {1, -1} : RoundBoth(q, ChainCut, sign)
    \/ Correct
    \/ Probe

ChainSpec == Init /\ [][ChainNext]_vars

\* The records of graph_must / label_must at the quiescence of epoch e.
MustGraph(e) == Support(FinalMust(graph_must, e))
MustLabel(e) == Support(FinalMust(label_must, e))

\* Epoch e holds the whole chain, or the chain without the edge (1,2), with
\* one label per node, and the query for (node 3, l) is the only live one.
ChainAt(e, g, l) ==
    /\ Support(graph[e + 1]) = g
    /\ Support(label[e + 1]) = ChainLabels
    /\ \E q \in ChainQueries : q[2] = l /\ LiveQueries(e) = {q}

(***************************************************************************)
(* C13.  Chain scenario: with the graph {(0,1),(1,2),(2,3)}, the labels    *)
(* (n,n) of the four nodes and the query for the label 0 of node 3 alone,  *)
(* the stepping returns with graph_must = {(0,1),(1,2),(2,3)} and          *)
(* label_must = {(0,0)}.                                                   *)
(***************************************************************************)
ChainScenario ==
    \A e \in QuietEpochs :
        ChainAt(e, ChainGraph, 0) =>
            /\ MustGraph(e) = ChainGraph
            /\ MustLabel(e) = {<<0, 0>>}

ChainScenarioWitness ==
    /\ pc = "idle"
    /\ ChainAt(Epoch, ChainGraph, 0)
    /\ MustGraph(Epoch) = ChainGraph
    /\ Rounds(Epoch) >= 3

\* The edge (1,2) of the chain is retracted at epoch e, and the query for
\* the label 2, which node 3 then has, is the only live one.
UpdateAt(e) ==
    /\ e >= 1
    /\ Support(graph[e]) = ChainGraph
    /\ ChainAt(e, ChainGraph \ {ChainCut}, 2)

(***************************************************************************)
(* C14.  Update scenario as stated: after the retraction of (1,2) and the  *)
(* query for the label of node 3 the stepping returns with graph_must =    *)
(* {(2,3)} and with (2,2) in label_must.                                   *)
(***************************************************************************)
UpdateScenario ==
    \A e \in QuietEpochs :
        UpdateAt(e) => /\ MustGraph(e) = {<<2, 3>>}
                       /\ <<2, 2>> \in MustLabel(e)

\* C14 as amended: the stepping returns with graph_must = {(0,1),(2,3)} and
\* label_must = {(0,0),(1,1),(2,2)}: what the labels node 3 had before the
\* retraction needed, as far as the inputs still hold it, is reported too.
UpdateScenarioKept ==
    \A e \in QuietEpochs :
        UpdateAt(e) => /\ MustGraph(e) = {<<0, 1>>, <<2, 3>>}
                       /\ MustLabel(e) = {<<0, 0>>, <<1, 1>>, <<2, 2>>}

\* The retraction and the query were sent in the same round.
UpdateScenarioWitness ==
    /\ pc = "idle"
    /\ UpdateAt(Epoch)
    /\ LiveQueries(Epoch - 1) = {}
    /\ <<0, 1>> \in MustGraph(Epoch)
    /\ <<2, 2>> \in MustLabel(Epoch)

\* The producer sends a set of deltas.
Send(s) ==
    /\ dlv = NoDelivery
    /\ s # {}
    /\ dlv' = [NoDelivery EXCEPT !.sent = s, !.pending = s]
    /\ UNCHANGED <<dataflowVars, combVars, trip, acc>>

\* One batch of pending deltas of time t arrives.
Deliver(b, t) ==
    /\ b # {}
    /\ b \subseteq {d \in dlv.pending : d[3] = t}
    /\ \E buf \in {dlv.buffer[t] \cup EntriesAt(b, t)} :
       \E out \in {ConsolidateOut(buf, FALSE)} :
          dlv' = [dlv EXCEPT
                    !.pending = @ \ b,
                    !.buffer[t] = IF out = {} THEN buf ELSE {},
                    !.got = @ \cup b,
                    !.lifted = Concat(@, LiftBatch(out, t)),
                    !.batches[t] = @ + 1]
    /\ UNCHANGED <<dataflowVars, combVars, trip, acc>>

\* The time t is complete: no delta of a time up to t is still to come.
Notify(t) ==
    /\ dlv.sent # {}
    /\ t \notin dlv.notified
    /\ \A u \in DeliveryTimes : u < t => u \in dlv.notified
    /\ \A d \in dlv.pending : d[3] > t
    /\ \E out \in {ConsolidateOut(dlv.buffer[t], TRUE)} :
          dlv' = [dlv EXCEPT
                    !.buffer[t] = {},
                    !.lifted = Concat(@, LiftBatch(out, t)),
                    !.stream = Append(@, MonotonicNext(@[Len(@)],
                                            <<SourceAt(dlv.got, t)>>)),
                    !.notified = @ \cup {t}]
    /\ UNCHANGED <<dataflowVars, combVars, trip, acc>>

DeliveryNext ==
    \/ \E s \in SUBSET DeltaPool : Cardinality(s) <= MaxDeltas /\ Send(s)
    \/ \E t \in DeliveryTimes : \E b \in SUBSET dlv.pending : Deliver(b, t)
    \/ \E t \in DeliveryTimes : Notify(t)

DeliverySpec == Init /\ [][DeliveryNext]_vars

\* What lift! and the MonotonicVariable hold for the deltas `sent`, batches
\* and order left aside.
LiftedOf(sent) ==
    OfSet({<<r, t>> \in {0, 1} \X DeliveryTimes :
              Net(EntriesAt(sent, t), r) # 0})

RECURSIVE StreamOf(_, _)
StreamOf(sent, n) ==
    IF n = 0 THEN <<ZEmpty>>
    ELSE LET s == StreamOf(sent, n - 1)
         IN  Append(s, MonotonicNext(s[n], <<SourceAt(sent, n - 1)>>))

Delivered == dlv.sent # {} /\ dlv.notified = DeliveryTimes

MinBacks(h, d) ==
    /\ h[1][1] = d[1]
    /\ TimeLeq(h[2], d[3])
    /\ Logic(h[1][2]) <= d[2]

MinBackExact ==
    corr >= 1 =>
        /\ \A o \in Support(depends.dopt) :
              /\ depends.dopt[o] = 1
              /\ <<<<o[1], o[2]>>, o[3]>> \in liftedMin
              /\ \E d \in Support(depends.dmin) :
                    d[4] = o[4] /\ MinBacks(<<<<o[1], o[2]>>, o[3]>>, d)
        /\ \A h \in liftedMin : \A d \in Support(depends.dmin) :
              MinBacks(h, d) =>
                  <<h[1][1], h[1][2], h[2], d[4]>> \in Support(depends.dopt)

\* Demands were added, a lifted record of a demanded key with a value not
\* above the demanded one was left out for its time alone, and another with
\* a time not after the demand's for its value alone.
MinBackWitness ==
    /\ corr >= 1
    /\ Support(depends.dopt) # {}
    /\ \E h \in liftedMin : \E d \in Support(depends.dmin) :
          /\ h[1][1] = d[1] /\ Logic(h[1][2]) <= d[2] /\ ~TimeLeq(h[2], d[3])
          /\ <<h[1][1], h[1][2], h[2], d[4]>> \notin Support(depends.dopt)
    /\ \E h \in liftedMin : \E d \in Support(depends.dmin) :
          /\ h[1][1] = d[1] /\ Logic(h[1][2]) > d[2] /\ TimeLeq(h[2], d[3])
          /\ <<h[1][1], h[1][2], h[2], d[4]>> \notin Support(depends.dopt)

(***************************************************************************)
(* C18.  Back-propagation of leave!: after a correction round, for every   *)
(* demand (k, v, t, q) on final_labels and every time t_in at which the    *)
(* lifted history of var_min.stream.concat(working) shows (k,v), var_min   *)
(* has the demand (k, v, t_in, q); every other demand on var_min comes     *)
(* from the feedback, so that a demand for a record without history adds   *)
(* none.                                                                   *)
(***************************************************************************)
History == Visible(liftedOut, Epoch, corr - 1)

FromLeave(o) ==
    /\ <<<<o[1], o[2]>>, o[3]>> \in History
    /\ \E d \in Support(depends.dfl) :
          d[1] = o[1] /\ d[2] = o[2] /\ d[4] = o[4]

FromFeedback(o) ==
    \E d \in Support(depends.dinner) :
        /\ d[3][3] > 0
        /\ o = <<d[1], d[2], <<d[3][1], d[3][2], d[3][3] - 1>>, d[4]>>

LeaveBackExact ==
    corr >= 1 =>
        /\ \A d \in Support(depends.dfl) : \A h \in History :
              (h[1] = <<d[1], d[2]>>) =>
                  <<d[1], d[2], h[2], d[4]>> \in Support(depends.dmin)
        /\ \A o \in Support(depends.dmin) : FromLeave(o) \/ FromFeedback(o)

\* A demanded record has history at two times or more, one of them of a
\* later epoch than the demand's own time, and another demanded record has
\* none.
LeaveBackWitness ==
    /\ corr >= 1
    /\ \E d \in Support(depends.dfl) :
          /\ Cardinality({h \in History : h[1] = <<d[1], d[2]>>}) >= 2
          /\ \E h \in History : h[1] = <<d[1], d[2]>> /\ h[2][1] > d[3][1]
    /\ \E d \in Support(depends.dfl) :
          /\ \A h \in History : h[1] # <<d[1], d[2]>>
          /\ \A o \in Support(depends.dmin) :
                ~(o[1] = d[1] /\ o[2] = d[2] /\ o[4] = d[4])

(***************************************************************************)
(* C17.  Result of min! as stated: for every key with a record in the      *)
(* collection the result holds one record (k, logic(v)), once, v being the *)
(* value of the key whose logic(v) is least, the lexicographically least   *)
(* of those; it holds no record of any other key.  Stream and working.     *)
(***************************************************************************)
MinOps == {"min", "min_by"}

\* The $logic of the min! that was applied.
Rho == IF cop = "min" THEN [v \in CombVals |-> Logic(v)] ELSE CombSecond

ValsOf(z, k) == {r[2] : r \in {x \in Support(z) : x[1] = k}}

RhoLeast(vals) ==
    CHOOSE v \in vals : \A u \in vals :
        Rho[v] < Rho[u] \/ (Rho[v] = Rho[u] /\ LexLeq(v, u))

LexLeast(vals) == CHOOSE v \in vals : \A u \in vals : LexLeq(v, u)

MinResultByLogic ==
    cop \in MinOps =>
        /\ cres.stream =
              OfSet({<<k, Rho[RhoLeast(ValsOf(cva.stream, k))]>> :
                        k \in {r[1] : r \in Support(cva.stream)}})
        /\ cres.working =
              OfSet({<<k, Rho[RhoLeast(ValsOf(cva.working, k))]>> :
                        k \in {r[1] : r \in Support(cva.working)}})

\* C17 as amended: v is the lexicographically least value of the key, and
\* the record is (k, logic(v)) whether or not another value has a smaller
\* logic(v).
MinResultOfLeast ==
    cop \in MinOps =>
        /\ cres.stream =
              OfSet({<<k, Rho[LexLeast(ValsOf(cva.stream, k))]>> :
                        k \in {r[1] : r \in Support(cva.stream)}})
        /\ cres.working =
              OfSet({<<k, Rho[LexLeast(ValsOf(cva.working, k))]>> :
                        k \in {r[1] : r \in Support(cva.working)}})

\* min! was applied to a key with three values in the stream, one of them
\* twice, whose least value has not the least logic(v); the working
\* collection holds fewer of them, and another key holds nothing in it.
MinResultWitness ==
    /\ cop = "min_by"
    /\ Cardinality(ValsOf(cva.stream, 0)) >= 3
    /\ \E r \in Support(cva.stream) : cva.stream[r] = 2
    /\ Rho[LexLeast(ValsOf(cva.stream, 0))] >
          Rho[RhoLeast(ValsOf(cva.stream, 0))]
    /\ ValsOf(cva.working, 0) # {}
    /\ ValsOf(cva.working, 0) # ValsOf(cva.stream, 0)
    /\ ValsOf(cva.stream, 2) # {}
    /\ ValsOf(cva.working, 2) = {}
    /\ Cardinality(Support(cres.stream)) = 2
    /\ Cardinality(Support(cres.working)) = 1

(***************************************************************************)
(* C19.  Back-propagation of enter and enter_at: the demands added to the  *)
(* depends of the outer Variable are the demands on the entered one with   *)
(* the inner coordinate of the time taken off, k, v and q as they are,     *)
(* each once, and no others.                                               *)
(***************************************************************************)
Demanded == cdem # NoCombDemands

EnterBackStrips ==
    (cop \in InChild /\ Demanded) =>
        /\ cdem.self =
              OfSet({<<d[1], d[2], <<d[3][1], d[3][2]>>, d[4]>> :
                        d \in Support(cdem.res)})
        /\ cdem.other = ZEmpty

\* enter_at has left a record of the outer Variable out so far, and two
\* demands on the entered Variable that differ in the inner time alone have
\* become one.
EnterBackWitness ==
    /\ cop = "enter_at"
    /\ Demanded
    /\ cres.stream # cva.stream
    /\ \E d1 \in Support(cdem.res), d2 \in Support(cdem.res) :
          /\ d1[3][3] # d2[3][3]
          /\ <<d1[1], d1[2], Outer(d1[3]), d1[4]>> =
                <<d2[1], d2[2], Outer(d2[3]), d2[4]>>
    /\ \E d1 \in Support(cdem.self), d2 \in Support(cdem.self) :
          d1[3] # d2[3]
    /\ Cardinality(Support(cdem.self)) < Cardinality(Support(cdem.res))

(***************************************************************************)
(* C20.  join_u: stream and working of the result are the joins on the key *)
(* of the two streams and of the two workings, and every demand            *)
(* (k, (v1, v2), t, q) on the result adds (k, v1, t, q) to the depends of  *)
(* self and (k, v2, t, q) to the depends of other, and nothing else is     *)
(* added.                                                                  *)
(***************************************************************************)
JoinOf(a, b, r) == Wt(a, <<r[1], r[2][1]>>) * Wt(b, <<r[1], r[2][2]>>)

Joined(a, b) ==
    {<<p[1][1], <<p[1][2], p[2][2]>>>> :
        p \in {x \in Support(a) \X Support(b) : x[1][1] = x[2][1]}}

IsJoin(res, a, b) ==
    /\ Support(res) = Joined(a, b)
    /\ \A r \in Support(res) : res[r] = JoinOf(a, b, r)

JoinBackBoth ==
    cop = "join_u" =>
        /\ IsJoin(cres.stream, cva.stream, cvb.stream)
        /\ IsJoin(cres.working, cva.working, cvb.working)
        /\ Demanded =>
              /\ cdem.self =
                    OfSet({<<d[1], d[2][1], d[3], d[4]>> :
                              d \in Support(cdem.res)})
              /\ cdem.other =
                    OfSet({<<d[1], d[2][2], d[3], d[4]>> :
                              d \in Support(cdem.res)})

\* Two records of self have joined with one of other, a joined record has
\* the product of two weights above one, and the demands on the result have
\* been taken apart.
JoinBackWitness ==
    /\ cop = "join_u"
    /\ Demanded
    /\ Cardinality(Support(cres.stream)) >= 2
    /\ \E r \in Support(cres.stream) : cres.stream[r] = 4
    /\ Support(cres.working) # {}
    /\ cres.working # cres.stream
    /\ Cardinality(Support(cdem.self)) > Cardinality(Support(cdem.other))
    /\ Support(cdem.self) \cap Support(cdem.other) = {}

(***************************************************************************)
(* C21.  concat, except and except!: every demand on the result is added   *)
(* as it is to the depends of both arguments, whichever of them holds the  *)
(* record; the result holds every record with the sum of its two weights,  *)
(* the second negated by except and except!, in stream and in working.     *)
(***************************************************************************)
BothSides == {"concat", "except", "except_macro"}

SecondSign == IF cop = "concat" THEN 1 ELSE -1

SumOfBoth(res, a, b) ==
    \A r \in Support(res) \cup Support(a) \cup Support(b) :
        Wt(res, r) = Wt(a, r) + SecondSign * Wt(b, r)

ConcatExceptBack ==
    cop \in BothSides =>
        /\ SumOfBoth(cres.stream, cva.stream, cvb.stream)
        /\ SumOfBoth(cres.working, cva.working, cvb.working)
        /\ Demanded => (cdem.self = cdem.res /\ cdem.other = cdem.res)

\* except! was applied, the second argument holds in its stream a record
\* the first holds more often and in its working collection one the first
\* holds there not at all, and a demand for a record the second argument
\* does not hold has been added to its depends.
ConcatExceptBackWitness ==
    /\ cop = "except_macro"
    /\ Demanded
    /\ \E r \in Support(cvb.stream) : Wt(cva.stream, r) > cvb.stream[r]
    /\ \E r \in Support(cvb.working) :
          Wt(cva.working, r) = 0 /\ cres.working[r] < 0
    /\ \E d \in Support(cdem.other) :
          /\ <<d[1], d[2]>> \notin Support(cvb.stream)
          /\ d \in Support(cdem.self)

(***************************************************************************)
(* C22.  Feedback edge: a demand (k, v, (t_outer, i), q) on the loop       *)
(* variable with i > 0 adds (k, v, (t_outer, i - 1), q) to the depends of  *)
(* the Variable that feeds the loop, a demand with i = 0 adds nothing, and *)
(* no inner coordinate wraps around; VariableFeedback::set and the         *)
(* feedback logic written out in the examples alike.                       *)
(***************************************************************************)
FeedbackBack ==
    (cop \in Loops /\ Demanded) =>
        /\ cdem.self =
              OfSet({<<d[1], d[2], <<d[3][1], d[3][2], d[3][3] - 1>>, d[4]>> :
                        d \in {x \in Support(cdem.res) : x[3][3] > 0}})
        /\ \A o \in Support(cdem.self) : o[3][3] \in 0..(MaxU32 - 1)
        /\ cdem.other = ZEmpty

\* VariableFeedback::set has been given demands of iteration 0 and of a
\* later iteration, and has handed on the later ones alone.
FeedbackBackWitness ==
    /\ cop = "feedback_set"
    /\ Demanded
    /\ \E d \in Support(cdem.res) : d[3][3] = 0
    /\ \E d \in Support(cdem.res) : d[3][3] = 1
    /\ \E o \in Support(cdem.self) : o[3][3] = 0
    /\ \E o \in Support(cdem.self) : o[3][3] > 0
    /\ Cardinality(Support(cdem.self)) < Cardinality(Support(cdem.res))

\* MonotonicVariable::add: self.current = self.current.concat(source).
AccAdd ==
    /\ acc.feedback
    /\ acc.adds < MaxAdds
    /\ acc' = [acc EXCEPT !.adds = @ + 1]
    /\ UNCHANGED <<dataflowVars, combVars, trip, dlv>>

\* Drop: if let Some(feedback) = self.feedback.take() the threshold of
\* `current` is connected to the loop; otherwise nothing is done.
AccDrop ==
    /\ acc' = IF acc.feedback
              THEN [acc EXCEPT !.feedback = FALSE, !.wired = @ + 1]
              ELSE acc
    /\ UNCHANGED <<dataflowVars, combVars, trip, dlv>>

\* One iteration of the loop, the sources holding the collections src.
AccIterate ==
    /\ ~acc.feedback
    /\ Len(acc.stream) <= MaxIter
    /\ \E src \in [1..acc.adds -> AccPool] :
          acc' = [acc EXCEPT
                    !.stream = Append(@, MonotonicNext(@[Len(@)], src)),
                    !.sources = Append(@, src)]
    /\ UNCHANGED <<dataflowVars, combVars, trip, dlv>>

AccNext == AccAdd \/ AccDrop \/ AccIterate

AccSpec == Init /\ [][AccNext]_vars

(***************************************************************************)
(* C23.  MonotonicVariable: the feedback is connected once; the stream is  *)
(* empty at iteration 0 and holds at iteration i + 1, once each, the       *)
(* records whose weights in the stream at iteration i and in the sources   *)
(* at iteration i add up to more than 0, whatever the order of the add     *)
(* calls.                                                                  *)
(***************************************************************************)
RECURSIVE SumOver(_, _, _)
SumOver(src, J, r) ==
    IF J = {} THEN 0
    ELSE LET j == CHOOSE x \in J : TRUE
         IN  Wt(src[j], r) + SumOver(src, J \ {j}, r)

Orders(n) == {p \in [1..n -> 1..n] : \A i, j \in 1..n : p[i] = p[j] => i = j}

AccFixedPoint ==
    /\ acc.wired <= 1
    /\ Len(acc.stream) > 1 => acc.wired = 1
    /\ acc.stream[1] = ZEmpty
    /\ \A i \in 1..Len(acc.sources) :
          /\ acc.stream[i + 1] =
                OfSet({r \in AccRecs :
                          Wt(acc.stream[i], r)
                            + SumOver(acc.sources[i], 1..acc.adds, r) > 0})
          /\ \A p \in Orders(acc.adds) :
                MonotonicNext(acc.stream[i],
                              [j \in 1..acc.adds |-> acc.sources[i][p[j]]])
                    = acc.stream[i + 1]

\* Three sources were added; at one iteration a record the stream did not
\* hold has a retraction in one source and more insertions in another and
\* is held next, and a record the stream held is retracted and held no more.
AccWitness ==
    /\ acc.adds = 3
    /\ Len(acc.stream) = 3
    /\ \E r \in AccRecs :
          /\ Wt(acc.stream[2], r) = 0
          /\ \E j \in 1..3 : Wt(acc.sources[2][j], r) < 0
          /\ Wt(acc.stream[3], r) = 1
    /\ \E r \in AccRecs :
          /\ Wt(acc.stream[2], r) = 1
          /\ Wt(acc.stream[3], r) = 0

(***************************************************************************)
(* C24.  The lifted history is sign-blind and append-only: it holds (x, t) *)
(* exactly when the consolidated delta of x at t is not 0, an insertion or *)
(* a retraction alike; no step takes a lifted record away; and a lifted    *)
(* record matches the demands of leave! and min! at every epoch and round  *)
(* not before its own, whether or not the collection still holds it.       *)
(***************************************************************************)
At(tr, n, r) == IF n = 0 THEN 0 ELSE Wt(tr[n], r)

IterWt(tr, n, r) == At(tr, n, r) - At(tr, n - 1, r)

\* The weight of r in the delta at <<e, c, IterSeq[n]>> of the collection
\* that is cur at (e,c), prevC at (e,c-1), prevE at (e-1,c) and prevEC at
\* (e-1,c-1).
DeltaWt(cur, prevC, prevE, prevEC, n, r) ==
    IterWt(cur, n, r) - IterWt(prevC, n, r) - IterWt(prevE, n, r)
      + IterWt(prevEC, n, r)

RecsOf(tr) == UNION {Support(tr[n]) : n \in 1..NIter}

\* What lift! has recorded of the last round is the records whose delta in
\* that round is not 0.
LiftedOfRound(lifted, cur, prevC, prevE, prevEC) ==
    {h \in lifted : Outer(h[2]) = <<Epoch, corr - 1>>} =
        UNION {{<<r, <<Epoch, corr - 1, IterSeq[n]>>>> :
                   r \in {x \in RecsOf(cur) \cup RecsOf(prevC) \cup
                                RecsOf(prevE) \cup RecsOf(prevEC) :
                            DeltaWt(cur, prevC, prevE, prevEC, n, x) # 0}} :
               n \in 1..NIter}

RoundRun(t) == t[1] < Epoch \/ (t[1] = Epoch /\ t[2] < corr)

LiftedExactly ==
    /\ \A h \in liftedMin : RoundRun(h[2])
    /\ \A h \in liftedOut : RoundRun(h[2])
    /\ corr >= 1 =>
          LET e == Epoch
              c == corr - 1
          IN  /\ LiftedOfRound(liftedMin, MinBoth(e, c), MinBoth(e, c - 1),
                               MinBoth(e - 1, c), MinBoth(e - 1, c - 1))
              /\ LiftedOfRound(liftedOut, OutBoth(e, c), OutBoth(e, c - 1),
                               OutBoth(e - 1, c), OutBoth(e - 1, c - 1))

NotBefore(h) == TimeLeq(Outer(h[2]), <<Epoch, corr - 1>>)

StillMatched ==
    corr >= 1 =>
        /\ \A h \in liftedOut : \A d \in Support(depends.dfl) :
              (NotBefore(h) /\ h[1] = <<d[1], d[2]>>) =>
                  <<d[1], d[2], h[2], d[4]>> \in Support(depends.dmin)
        /\ \A h \in liftedMin : \A d \in Support(depends.dmin) :
              (/\ NotBefore(h)
               /\ h[1][1] = d[1]
               /\ TimeLeq(h[2], d[3])
               /\ Logic(h[1][2]) <= d[2]) =>
                  <<h[1][1], h[1][2], h[2], d[4]>> \in Support(depends.dopt)

LiftSignBlind ==
    /\ []LiftedExactly
    /\ []StillMatched
    /\ [][liftedMin \subseteq liftedMin' /\ liftedOut \subseteq liftedOut']_vars

\* A record var_min held at an earlier epoch and holds at no iteration of
\* this one, whose retraction was lifted too, is demanded of var_min with
\* the time it was lifted at.
LiftSignBlindWitness ==
    /\ corr >= 1
    /\ \E h \in liftedOut :
          /\ h[2][1] < Epoch
          /\ h[1] \notin RecsOf(OutBoth(Epoch, corr - 1))
          /\ \E g \in liftedOut :
                /\ g[1] = h[1]
                /\ Outer(g[2]) = <<Epoch, 0>>
                /\ \E n \in 1..NIter :
                      /\ IterSeq[n] = g[2][3]
                      /\ DeltaWt(OutBoth(Epoch, 0), EmptyTrace,
                                 OutBoth(Epoch - 1, 0), EmptyTrace,
                                 n, g[1]) < 0
          /\ \E d \in Support(depends.dmin) :
                d[1] = h[1][1] /\ d[2] = h[1][2] /\ d[3] = h[2]

(***************************************************************************)
(* The connected-components dataflow run twice on the same lines, the      *)
(* second time with another T_bound in every query: the least there is,    *)
(* <<0, 0>>, in place of what the line gave.  The second run keeps its     *)
(* must sets and lifted histories in `trip`.                               *)
(***************************************************************************)
BoundCorrect ==
    /\ pc = "step"
    /\ ~(Quiesced /\ TripQuiesced)
    /\ corr < MaxCorr
    /\ CorrectRound
    /\ BoundRound
    /\ UNCHANGED <<combVars, dlv, acc>>

BoundNext ==
    \/ \E g \in LoadPool : Load(g)
    \/ \E r \in EdgePool, sign \in {1, -1} : LineGraph(r, sign)
    \/ \E r \in QueryPool, sign \in {1, -1} : LineQuery(r, sign)
    \/ BoundCorrect
    \/ TripProbe

BoundSpec == Init /\ [][BoundNext]_vars

(***************************************************************************)
(* C25.  At every epoch at which both runs have gone quiet, the run with   *)
(* the other T_bound in its queries has the same graph_must and the same   *)
(* label_must as the run with the T_bound of the lines.                    *)
(***************************************************************************)
BoundFree ==
    \A e \in QuietEpochs :
        /\ FinalMust(trip.graph_must, e) = FinalMust(graph_must, e)
        /\ FinalMust(trip.label_must, e) = FinalMust(label_must, e)

\* After a change of the graph a query sent with the T_bound of the driver
\* is live, the second run had it with <<0, 0>>, and both have explained it
\* with edges and labels.
BoundFreeWitness ==
    /\ pc = "idle"
    /\ Epoch >= 2
    /\ graph[Epoch + 1] # graph[2]
    /\ \E q \in LiveQueries(Epoch) :
          /\ q[3] = <<0, MaxU32>>
          /\ q \notin Support(QueryBound(query[Epoch + 1]))
    /\ Support(FinalMust(trip.graph_must, Epoch)) # {}
    /\ Support(FinalMust(trip.label_must, Epoch)) # {}

(***************************************************************************)
(* C26.  Demand propagation inside the inner loop ends: after every        *)
(* correction round the depends collections are a fixed point of the       *)
(* explanation scope, reached in a number of passes bounded by the number  *)
(* of iterations in the lifted history; no demand inside the loop has an   *)
(* iteration above the history's last; map_inverse, concat, join_u and     *)
(* enter hand a demand on at its own time, min! at a time not after it,    *)
(* and the feedback edge one iteration earlier.                            *)
(***************************************************************************)
RECURSIVE Passes(_, _, _, _)
Passes(D, qry, lo, lm) ==
    LET next == ExplainStep(D, qry, lo, lm)
    IN  IF next = D THEN 0 ELSE 1 + Passes(next, qry, lo, lm)

\* The iterations at which the lifted history of var_min has a record.
HistoryIters == {h[2][3] : h \in History}

TimesOf(z) == {d[3] : d \in Support(z)}

\* The times of the demands on the Variables of the inner scope.
InLoop ==
    TimesOf(depends.dmin) \cup TimesOf(depends.dopt) \cup
    TimesOf(depends.dlm) \cup TimesOf(depends.dlin) \cup
    TimesOf(depends.dtr) \cup TimesOf(depends.djoin) \cup
    TimesOf(depends.dein) \cup TimesOf(depends.dinner)

SameTimeFrom(to, from) ==
    \A o \in Support(to) : \E d \in Support(from) :
        d[3] = o[3] /\ d[4] = o[4]

InnerNeverUp ==
    /\ \A t \in InLoop : \E i \in HistoryIters : t[3] <= i
    /\ \A o \in Support(depends.dopt) : \E d \in Support(depends.dmin) :
          d[1] = o[1] /\ d[4] = o[4] /\ TimeLeq(o[3], d[3])
    /\ Support(depends.dtr) = Support(depends.dopt)
    /\ Support(depends.dlm) = Support(depends.dopt)
    /\ SameTimeFrom(depends.dlin, depends.dlm)
    /\ SameTimeFrom(depends.djoin, depends.dtr)
    /\ SameTimeFrom(depends.dinner, depends.djoin)
    /\ SameTimeFrom(depends.dein, depends.djoin)
    /\ \A o \in Support(depends.dmin) :
          \/ <<<<o[1], o[2]>>, o[3]>> \in History
          \/ \E d \in Support(depends.dinner) :
                /\ d[1] = o[1] /\ d[2] = o[2] /\ d[4] = o[4]
                /\ Outer(d[3]) = Outer(o[3])
                /\ d[3][3] = o[3][3] + 1

DemandsEnd ==
    corr >= 1 =>
        LET qry == query[Epoch + 1]
            lo  == Visible(liftedOut, Epoch, corr - 1)
            lm  == Visible(liftedMin, Epoch, corr - 1)
        IN  /\ ExplainStep(depends, qry, lo, lm) = depends
            /\ Passes(NoDemands, qry, lo, lm)
                  <= 5 * (Cardinality(HistoryIters) + 1) + 6
            /\ InnerNeverUp

\* Demands have crossed the feedback edge twice or more: var_inner is
\* demanded at three iterations, var_min one iteration before each, down to
\* iteration 0, where a demand on var_inner is handed on no further.
DemandsEndWitness ==
    /\ corr >= 1
    /\ Cardinality({d[3][3] : d \in Support(depends.dinner)}) >= 3
    /\ \E d \in Support(depends.dinner) : d[3][3] = 0
    /\ \E d \in Support(depends.dinner) : \E o \in Support(depends.dmin) :
          /\ d[3][3] > 0
          /\ o = <<d[1], d[2], <<d[3][1], d[3][2], d[3][3] - 1>>, d[4]>>
          /\ <<<<o[1], o[2]>>, o[3]>> \notin History
    /\ Passes(NoDemands, query[Epoch + 1],
              Visible(liftedOut, Epoch, corr - 1),
              Visible(liftedMin, Epoch, corr - 1)) >= 12

====
